---- MODULE Spec2Model ----
(***************************************************************************)
(* Model of the ingestion, deduplication, thread reconciliation, cursor    *)
(* tracking and notification engine of PA_V2.                              *)
(*                                                                         *)
(* Storage is the three tables the code reads and writes: email_threads,   *)
(* email_messages and provider_push_state.  A table is a sequence of rows, *)
(* a row's internal id is its position.  Python None / SQL NULL is the     *)
(* value None.  Text is TLA+ strings; the string functions of the code     *)
(* (strip, startswith, lower, in) are computed character by character.     *)
(***************************************************************************)
EXTENDS Integers, Sequences, FiniteSets, TLC

VARIABLES
    email_threads,        \* table email_threads
    email_messages,       \* table email_messages
    now,                  \* wall clock, seconds since the epoch
    history,              \* completed upsert_email calls, oldest first
    proc,                 \* concurrent upsert_email calls, one record per process
    provider_push_state,  \* table provider_push_state, one row per provider
    cycle,                \* concurrent cursor cycles, one record per worker
    telegram_up,          \* does the Telegram API answer 200 right now
    attempts,             \* notification attempts of the latest handler run
    delivered,            \* ids of the messages Telegram has accepted a notification for
    upstream,             \* the providers' mailboxes and the pushes in flight
    invocation,           \* what the latest run of a job or of the webhook did
    applied               \* the latest application of a function: its name, input, output

vars == <<email_threads, email_messages, now, history, proc,
          provider_push_state, cycle, telegram_up, attempts, delivered, upstream,
          invocation, applied>>

\* None of a text value
None == "#None"

\* No function has been applied yet
NoApplied == [fn |-> "none", input |-> <<>>, output |-> <<>>]

\* None / NULL of a number (a time, a history id, a delta link) and its values
NULL == <<>>
Some(v) == <<v>>
IsNull(x) == x = NULL
Val(x) == x[1]

(***************************************************************************)
(* Bounds of the model.                                                    *)
(***************************************************************************)
MaxCalls == 3
MaxNow == 1
MaxProcCalls == 2
MaxMail == 2
MaxPushMail == 3
PageSize == 3
MaxPaged == 4
MaxDays == 2

(***************************************************************************)
(* Python string functions.                                                *)
(***************************************************************************)
Falsy(s) == s = None \/ s = ""

CharAt(s, i) == SubSeq(s, i, i)

Drop(s, n) == SubSeq(s, n + 1, Len(s))

StartsWith(s, prefix) ==
    /\ Len(prefix) <= Len(s)
    /\ SubSeq(s, 1, Len(prefix)) = prefix

IsSpace(c) == c = " "

RECURSIVE LStrip(_)
LStrip(s) ==
    IF Len(s) > 0 /\ IsSpace(CharAt(s, 1)) THEN LStrip(Drop(s, 1)) ELSE s

RECURSIVE RStrip(_)
RStrip(s) ==
    IF Len(s) > 0 /\ IsSpace(CharAt(s, Len(s)))
    THEN RStrip(SubSeq(s, 1, Len(s) - 1))
    ELSE s

Strip(s) == RStrip(LStrip(s))

UpperChars == "ABCDEFGHIJKLMNOPQRSTUVWXYZ"
LowerChars == "abcdefghijklmnopqrstuvwxyz"

LowerChar(c) ==
    IF \E i \in 1..Len(UpperChars) : CharAt(UpperChars, i) = c
    THEN CharAt(LowerChars, CHOOSE i \in 1..Len(UpperChars) : CharAt(UpperChars, i) = c)
    ELSE c

RECURSIVE Lower(_)
Lower(s) ==
    IF Len(s) = 0 THEN "" ELSE LowerChar(CharAt(s, 1)) \o Lower(Drop(s, 1))

\* Python's `a in b` on strings
Contains(b, a) ==
    \E i \in 1..(Len(b) + 1) :
        /\ i + Len(a) - 1 <= Len(b)
        /\ SubSeq(b, i, i + Len(a) - 1) = a

Digits == "0123456789"

\* Python's str(n) of a non-negative integer
RECURSIVE IntToStr(_)
IntToStr(n) ==
    IF n < 10 THEN CharAt(Digits, n + 1)
    ELSE IntToStr(n \div 10) \o CharAt(Digits, (n % 10) + 1)

(***************************************************************************)
(* Thread reconciliation: EmailRepo._subjects_are_related.                 *)
(***************************************************************************)
Prefixes == <<"Re:", "RE:", "Fwd:", "FWD:", "Fw:">>

RECURSIVE StripPrefixes(_, _)
StripPrefixes(s, i) ==
    IF i > Len(Prefixes) THEN s
    ELSE IF StartsWith(s, Prefixes[i])
         THEN StripPrefixes(Strip(Drop(s, Len(Prefixes[i]))), i + 1)
         ELSE StripPrefixes(s, i + 1)

clean_subject(s) == Lower(StripPrefixes(Strip(s), 1))

subjects_are_related_always(subject1, subject2) ==
    ~(Falsy(subject1) \/ Falsy(subject2))

subjects_are_related_exact(subject1, subject2) ==
    ~(Falsy(subject1) \/ Falsy(subject2)) /\ subject1 = subject2

subjects_are_related(subject1, subject2) ==
    IF Falsy(subject1) \/ Falsy(subject2) THEN FALSE
    ELSE LET clean1 == clean_subject(subject1)
             clean2 == clean_subject(subject2)
         IN  \/ clean1 = clean2
             \/ Contains(clean2, clean1)
             \/ Contains(clean1, clean2)

(***************************************************************************)
(* Table email_threads.  (provider, provider_thread_id) is unique: the     *)
(* upsert of repo/email_repo.py names it as its conflict target.           *)
(***************************************************************************)
NoRow == 0

\* SELECT id, subject_last FROM email_threads WHERE provider = .. AND provider_thread_id = ..
ThreadSelect(threads, provider, provider_thread_id) ==
    LET hits == {i \in 1..Len(threads) :
                    /\ threads[i].provider = provider
                    /\ provider_thread_id /= None
                    /\ threads[i].provider_thread_id = provider_thread_id}
    IN  IF hits = {} THEN NoRow ELSE CHOOSE i \in hits : \A j \in hits : i <= j

\* INSERT INTO email_threads (..) VALUES (..) RETURNING id
\* raised: the unique index rejects the row
ThreadInsert(threads, provider, provider_thread_id, subject_last) ==
    IF ThreadSelect(threads, provider, provider_thread_id) /= NoRow
    THEN [threads |-> threads, id |-> NoRow, raised |-> TRUE]
    ELSE [threads |-> Append(threads, [provider |-> provider,
                                       provider_thread_id |-> provider_thread_id,
                                       subject_last |-> subject_last]),
          id |-> Len(threads) + 1,
          raised |-> FALSE]

\* f"{provider_thread_id}_{int(time.time())}"
new_thread_id(provider_thread_id, t) == provider_thread_id \o "_" \o IntToStr(t)

\* An upsert_thread that keeps the stored subject of the thread it found
UpsertThreadWrite_keep(threads, t, existing, existing_subject, provider, provider_thread_id, subject_last) ==
    IF existing /= NoRow
    THEN IF /\ ~Falsy(existing_subject)
            /\ ~Falsy(subject_last)
            /\ ~subjects_are_related(existing_subject, subject_last)
         THEN ThreadInsert(threads, provider, new_thread_id(provider_thread_id, t), subject_last)
         ELSE [threads |-> threads, id |-> existing, raised |-> FALSE]
    ELSE ThreadInsert(threads, provider, provider_thread_id, subject_last)

\* An upsert_thread that writes the incoming subject whatever it is
UpsertThreadWrite_erase(threads, t, existing, existing_subject, provider, provider_thread_id, subject_last) ==
    IF existing /= NoRow
    THEN IF /\ ~Falsy(existing_subject)
            /\ ~Falsy(subject_last)
            /\ ~subjects_are_related(existing_subject, subject_last)
         THEN ThreadInsert(threads, provider, new_thread_id(provider_thread_id, t), subject_last)
         ELSE [threads |-> [threads EXCEPT ![existing].subject_last = subject_last],
               id |-> existing,
               raised |-> FALSE]
    ELSE ThreadInsert(threads, provider, provider_thread_id, subject_last)

\* The part of upsert_thread after the SELECT: `existing` is the row id the
\* SELECT returned and existing_subject the subject it read.
UpsertThreadWrite(threads, t, existing, existing_subject, provider, provider_thread_id, subject_last) ==
    IF existing /= NoRow
    THEN IF /\ ~Falsy(existing_subject)
            /\ ~Falsy(subject_last)
            /\ ~subjects_are_related(existing_subject, subject_last)
         THEN ThreadInsert(threads, provider, new_thread_id(provider_thread_id, t), subject_last)
         ELSE [threads |-> IF ~Falsy(subject_last) /\ subject_last /= existing_subject
                           THEN [threads EXCEPT ![existing].subject_last = subject_last]
                           ELSE threads,
               id |-> existing,
               raised |-> FALSE]
    ELSE ThreadInsert(threads, provider, provider_thread_id, subject_last)

\* EmailRepo.upsert_thread run without interruption
upsert_thread(threads, t, provider, provider_thread_id, subject_last) ==
    LET existing == ThreadSelect(threads, provider, provider_thread_id)
    IN  UpsertThreadWrite(threads, t, existing,
                          IF existing = NoRow THEN None ELSE threads[existing].subject_last,
                          provider, provider_thread_id, subject_last)

(***************************************************************************)
(* Table email_messages.  (provider, provider_message_id) is unique.       *)
(***************************************************************************)
\* EmailRepo.get_email_id; Python None is NoRow
get_email_id(messages, provider, provider_message_id) ==
    LET hits == {i \in 1..Len(messages) :
                    /\ messages[i].provider = provider
                    /\ messages[i].provider_message_id = provider_message_id}
    IN  IF hits = {} THEN NoRow ELSE CHOOSE i \in hits : \A j \in hits : i <= j

\* An insert that overwrites the stored row: ON CONFLICT .. DO UPDATE
MessageInsert_overwrite(messages, thread_id, m) ==
    LET id == get_email_id(messages, m.provider, m.provider_message_id)
        row == [provider |-> m.provider, provider_message_id |-> m.provider_message_id,
                thread_id |-> thread_id, subject |-> m.subject,
                received_at |-> m.received_at, tags |-> <<>>]
    IN  IF id /= NoRow
        THEN [messages |-> [messages EXCEPT ![id] = row], id |-> id]
        ELSE [messages |-> Append(messages, row), id |-> Len(messages) + 1]

\* INSERT INTO email_messages (..) ON CONFLICT (provider, provider_message_id) DO NOTHING RETURNING id
MessageInsert(messages, thread_id, m) ==
    IF get_email_id(messages, m.provider, m.provider_message_id) /= NoRow
    THEN [messages |-> messages, id |-> NoRow]
    ELSE [messages |-> Append(messages, [provider |-> m.provider,
                                         provider_message_id |-> m.provider_message_id,
                                         thread_id |-> thread_id,
                                         subject |-> m.subject,
                                         received_at |-> m.received_at,
                                         tags |-> <<>>]),
          id |-> Len(messages) + 1]

\* EmailRepo.upsert_email run without interruption.  m is the call's arguments.
upsert_email(threads, messages, t, m) ==
    LET th == upsert_thread(threads, t, m.provider, m.provider_thread_id, m.subject)
        ins == MessageInsert(messages, th.id, m)
    IN  IF th.raised
        THEN [threads |-> threads, messages |-> messages, id |-> NoRow, raised |-> TRUE]
        ELSE [threads |-> th.threads,
              messages |-> ins.messages,
              id |-> IF ins.id /= NoRow THEN ins.id
                     ELSE get_email_id(messages, m.provider, m.provider_message_id),
              raised |-> FALSE]

(***************************************************************************)
(* Sequential ingestion: one upsert_email call at a time, the clock ticks  *)
(* between calls.                                                          *)
(***************************************************************************)
Providers == {"p1"}
MessageIds == {"m1", "m2", "m3"}
ThreadIds == {"t1"}
Subjects == {"Hello", "Re: Hello", "Totally unrelated"}

Args(provider, mid, tid, subject, received_at) ==
    [provider |-> provider, provider_message_id |-> mid, provider_thread_id |-> tid,
     subject |-> subject, received_at |-> received_at]

\* The processes that run upsert_email concurrently, each on its own connection.
Procs == {"w1", "w2"}

NoProc == [pc |-> "idle", calls |-> 0, concurrent |-> FALSE, args |-> None,
           existing |-> NoRow, existing_subject |-> None, thread_id |-> NoRow, ret |-> NoRow]
NoCycle == [pc |-> "idle", incoming |-> 0, read |-> NULL, start |-> 0,
            next |-> NULL, items |-> <<>>, any_new |-> FALSE]

\* The workers that run webhook and poll cycles concurrently.
Workers == {"c1", "c2"}

NoUpstream == [gmail |-> <<>>, pubsub |-> {}, outlook |-> <<>>]

\* monitor.py PROVIDERS
PROVIDERS == {"gmail", "outlook"}

\* How a provider's change fetch ends: it answers, it times out or is rate
\* limited, the credentials are rejected, upstream does not know the cursor
FetchOutcomes == {"ok", "transient", "auth", "stale"}

\* The record of one run of a job or of the webhook:
\*   job      "hook", "poll", "watch"
\*   auth     the providers check_auth_status found authenticated
\*   fetch    how each provider's change fetch ended ("none": not fetched)
\*   ran      the providers whose cycle was entered
\*   incoming the history id the webhook was called with
\*   batch    the provider message ids of the records the fetches returned
\*   created  the ids of the message rows the run inserted
\*   advanced the providers whose stored cursor the run moved forward
\*   raised   did the run end with an error (HTTP 500 for the webhook)
\*   alerts   what the run told the alerting collaborator about: a
\*            provider's name, or "authentication"
NoInvocation ==
    [job |-> "none", auth |-> {}, fetch |-> [q \in PROVIDERS |-> "none"], ran |-> {},
     incoming |-> 0, batch |-> {}, created |-> {}, advanced |-> {}, raised |-> FALSE,
     alerts |-> {}]

InitRest ==
    /\ proc = [p \in Procs |-> NoProc]
    /\ provider_push_state = <<>>
    /\ cycle = [w \in Workers |-> NoCycle]
    /\ telegram_up = TRUE
    /\ attempts = {}
    /\ delivered = {}
    /\ upstream = NoUpstream
    /\ invocation = NoInvocation
    /\ applied = NoApplied

Init ==
    /\ email_threads = <<>>
    /\ email_messages = <<>>
    /\ now = 0
    /\ history = <<>>
    /\ InitRest

\* Has a thread of this provider been split off provider_thread_id already?
IsSplit(threads, provider, provider_thread_id) ==
    \E i \in 1..Len(threads) :
        /\ threads[i].provider = provider
        /\ StartsWith(threads[i].provider_thread_id, provider_thread_id \o "_")

\* The record kept of one completed call: its arguments, its result and
\* what storage held before and after it.
CallRecord(threads, messages, m, r) ==
    LET original == ThreadSelect(threads, m.provider, m.provider_thread_id)
    IN  [args |-> m, id |-> r.id, raised |-> r.raised,
         stored |-> get_email_id(messages, m.provider, m.provider_message_id),
         original |-> original,
         original_subject |-> IF original = NoRow THEN None
                              ELSE threads[original].subject_last,
         split_before |-> IsSplit(threads, m.provider, m.provider_thread_id),
         threads_before |-> Len(threads),
         messages_before |-> Len(messages),
         threads_after |-> Len(r.threads),
         messages_after |-> Len(r.messages)]

\* One call of upsert_email with arguments from the given sets.
Ingest(threadIdSet, subjectSet) ==
    /\ Len(history) < MaxCalls
    /\ \E provider \in Providers, mid \in MessageIds, tid \in threadIdSet, subject \in subjectSet :
        LET m == Args(provider, mid, tid, subject, Some(now))
            r == upsert_email(email_threads, email_messages, now, m)
        IN  /\ email_threads' = r.threads
            /\ email_messages' = r.messages
            /\ history' = Append(history, CallRecord(email_threads, email_messages, m, r))
    /\ UNCHANGED <<now, proc, provider_push_state, cycle, telegram_up, attempts, delivered, upstream, invocation,
                   applied>>

Tick ==
    /\ now < MaxNow
    /\ now' = now + 1
    /\ UNCHANGED <<email_threads, email_messages, history, proc,
                   provider_push_state, cycle, telegram_up, attempts, delivered, upstream, invocation,
                   applied>>

IngestHello == Ingest(ThreadIds, Subjects)

Next == IngestHello \/ Tick

Spec == Init /\ [][Next]_vars

(***************************************************************************)
(* C1.  Ingest idempotence: a call of upsert_email for a (provider,        *)
(* provider_message_id) that is already stored returns the stored id and   *)
(* creates neither a message row nor a thread row, whatever subject the    *)
(* second call carries.                                                    *)
(***************************************************************************)
C1_IngestIdempotent ==
    \A k \in 1..Len(history) :
        history[k].stored /= NoRow =>
            /\ ~history[k].raised
            /\ history[k].id = history[k].stored
            /\ history[k].messages_after = history[k].messages_before
            /\ history[k].threads_after = history[k].threads_before

(***************************************************************************)
(* C4.  End-to-end sequence: from empty storage, ingesting A (p1, m1, t1,  *)
(* "Hello"), B (p1, m2, t1, "Re: Hello") and C (p1, m3, t1, "Totally       *)
(* unrelated") leaves A and B in the same thread row, C in a different,    *)
(* new thread row, exactly 2 thread rows and exactly 3 message rows.       *)
(***************************************************************************)
IsCall(h, mid, tid, subject) ==
    /\ h.args.provider = "p1"
    /\ h.args.provider_message_id = mid
    /\ h.args.provider_thread_id = tid
    /\ h.args.subject = subject

RanABC ==
    /\ Len(history) >= 3
    /\ IsCall(history[1], "m1", "t1", "Hello")
    /\ IsCall(history[2], "m2", "t1", "Re: Hello")
    /\ IsCall(history[3], "m3", "t1", "Totally unrelated")

C4_EndToEnd ==
    RanABC =>
        /\ \A k \in 1..3 : ~history[k].raised /\ history[k].id /= NoRow
        /\ email_messages[history[1].id].thread_id = email_messages[history[2].id].thread_id
        /\ email_messages[history[3].id].thread_id /= email_messages[history[1].id].thread_id
        /\ email_messages[history[3].id].thread_id > history[3].threads_before
        /\ history[3].threads_after = 2
        /\ history[3].messages_after = 3

C4_Witness == RanABC /\ Len(history) = 3

(***************************************************************************)
(* Ingestion into storage that already holds the thread "Budget Review"    *)
(* under provider thread id T1.                                            *)
(***************************************************************************)
BudgetThreadIds == {"T1"}
BudgetSubjects == {"Budget Review", "Re: Budget Review", "Lunch plans"}

InitBudget ==
    LET r == upsert_email(<<>>, <<>>, 0, Args("p1", "m0", "T1", "Budget Review", Some(0)))
    IN  /\ email_threads = r.threads
        /\ email_messages = r.messages
        /\ now = 0
        /\ history = <<>>
        /\ InitRest

IngestBudget == Ingest(BudgetThreadIds, BudgetSubjects)

NextBudget == IngestBudget \/ Tick

SpecBudget == InitBudget /\ [][NextBudget]_vars

(***************************************************************************)
(* C3.  Thread split correctness: with a stored thread of subject "Budget  *)
(* Review" under provider thread id T1, a new message with thread id T1    *)
(* and subject "Lunch plans" is placed in a new thread row distinct from   *)
(* the original, and a new message with thread id T1 and subject           *)
(* "Re: Budget Review" is placed in the original thread.  The given        *)
(* storage is the one of the scenario: T1 has not been split before.       *)
(***************************************************************************)
BudgetGiven(h) ==
    /\ h.args.provider_thread_id = "T1"
    /\ h.original /= NoRow
    /\ h.original_subject = "Budget Review"
    /\ h.stored = NoRow

ConcMessageIds == {"m1", "m2"}
ConcSubjects == {"Hello", "Totally unrelated"}

InFlight(p) == proc[p].pc \in {"select", "write", "insert", "get_id"}

SameKey(a, b) ==
    /\ a.provider = b.provider
    /\ a.provider_message_id = b.provider_message_id

\* upsert_email is entered
ConcCall(p) ==
    /\ ~InFlight(p)
    /\ proc[p].calls < MaxProcCalls
    /\ \E provider \in Providers, mid \in ConcMessageIds, tid \in ThreadIds, subject \in ConcSubjects :
        LET m == Args(provider, mid, tid, subject, Some(now))
            overlaps(q) == q /= p /\ InFlight(q) /\ SameKey(proc[q].args, m)
        IN  proc' = [q \in Procs |->
                        IF q = p
                        THEN [NoProc EXCEPT !.pc = "select", !.calls = proc[p].calls + 1,
                                            !.args = m,
                                            !.concurrent = \E o \in Procs : overlaps(o)]
                        ELSE IF overlaps(q) THEN [proc[q] EXCEPT !.concurrent = TRUE]
                        ELSE proc[q]]
    /\ UNCHANGED <<email_threads, email_messages, now, history,
                   provider_push_state, cycle, telegram_up, attempts, delivered, upstream, invocation,
                   applied>>

\* upsert_thread: the SELECT
ConcSelect(p) ==
    /\ proc[p].pc = "select"
    /\ LET m == proc[p].args
           existing == ThreadSelect(email_threads, m.provider, m.provider_thread_id)
       IN  proc' = [proc EXCEPT ![p].pc = "write",
                                ![p].existing = existing,
                                ![p].existing_subject =
                                    IF existing = NoRow THEN None
                                    ELSE email_threads[existing].subject_last]
    /\ UNCHANGED <<email_threads, email_messages, now, history,
                   provider_push_state, cycle, telegram_up, attempts, delivered, upstream, invocation,
                   applied>>

\* upsert_thread: the INSERT or UPDATE that follows the SELECT; a unique
\* violation leaves upsert_email as an exception
ConcWrite(p) ==
    /\ proc[p].pc = "write"
    /\ LET m == proc[p].args
           r == UpsertThreadWrite(email_threads, now, proc[p].existing, proc[p].existing_subject,
                                  m.provider, m.provider_thread_id, m.subject)
       IN  /\ email_threads' = r.threads
           /\ proc' = [proc EXCEPT ![p].pc = IF r.raised THEN "raised" ELSE "insert",
                                   ![p].thread_id = r.id]
    /\ UNCHANGED <<email_messages, now, history,
                   provider_push_state, cycle, telegram_up, attempts, delivered, upstream, invocation,
                   applied>>

\* upsert_email: INSERT ... ON CONFLICT DO NOTHING RETURNING id
ConcInsert(p) ==
    /\ proc[p].pc = "insert"
    /\ LET r == MessageInsert(email_messages, proc[p].thread_id, proc[p].args)
       IN  /\ email_messages' = r.messages
           /\ proc' = [proc EXCEPT ![p].pc = IF r.id /= NoRow THEN "done" ELSE "get_id",
                                   ![p].ret = r.id]
    /\ UNCHANGED <<email_threads, now, history,
                   provider_push_state, cycle, telegram_up, attempts, delivered, upstream, invocation,
                   applied>>

\* upsert_email: no row came back, get_email_id
ConcGetId(p) ==
    /\ proc[p].pc = "get_id"
    /\ proc' = [proc EXCEPT ![p].pc = "done",
                            ![p].ret = get_email_id(email_messages, proc[p].args.provider,
                                                    proc[p].args.provider_message_id)]
    /\ UNCHANGED <<email_threads, email_messages, now, history,
                   provider_push_state, cycle, telegram_up, attempts, delivered, upstream, invocation,
                   applied>>

NextConc ==
    \/ \E p \in Procs : ConcCall(p)
    \/ \E p \in Procs : ConcSelect(p)
    \/ \E p \in Procs : ConcWrite(p)
    \/ \E p \in Procs : ConcInsert(p)
    \/ \E p \in Procs : ConcGetId(p)
    \/ Tick

SpecConc == Init /\ [][NextConc]_vars

(***************************************************************************)
(* C2.  Idempotence under concurrency: when two upsert_email calls for the *)
(* same (provider, provider_message_id) overlap, then once both have ended *)
(* neither has failed, both have returned the id of the one message row    *)
(* that exists for the key.                                                *)
(***************************************************************************)
Ended(p) == proc[p].pc \in {"done", "raised"}

RowsOfKey(m) ==
    {i \in 1..Len(email_messages) : SameKey(email_messages[i], m)}

C2_ConcurrentIdempotent ==
    \A p, q \in Procs :
        (/\ p /= q
         /\ Ended(p) /\ Ended(q)
         /\ proc[p].concurrent /\ proc[q].concurrent
         /\ SameKey(proc[p].args, proc[q].args)) =>
            /\ proc[p].pc = "done" /\ proc[q].pc = "done"
            /\ Cardinality(RowsOfKey(proc[p].args)) = 1
            /\ proc[p].ret = proc[q].ret
            /\ proc[p].ret \in RowsOfKey(proc[p].args)

(***************************************************************************)
(* Table provider_push_state: PushRepo.  The table is a function from the  *)
(* providers that have a row to their row.                                 *)
(***************************************************************************)
NewStateRow ==
    [gmail_last_history_id |-> NULL, gmail_watch_expires_at |-> NULL,
     graph_delta_link |-> NULL, push_state |-> "down"]

\* PushRepo._ensure_row
ensure_row(state, provider) ==
    IF provider \in DOMAIN state THEN state
    ELSE [q \in (DOMAIN state) \cup {provider} |->
             IF q = provider THEN NewStateRow ELSE state[q]]

\* PushRepo.get_gmail_last_history_id: the value read, after _ensure_row
get_gmail_last_history_id(state) == ensure_row(state, "gmail")["gmail"].gmail_last_history_id

\* PushRepo.set_gmail_last_history_id: an UPDATE, no row is created
set_gmail_last_history_id(state, hid) ==
    IF "gmail" \in DOMAIN state
    THEN [state EXCEPT !["gmail"].gmail_last_history_id = Some(hid),
                       !["gmail"].push_state = "healthy"]
    ELSE state

\* PushRepo.update_gmail_watch: an UPDATE, no row is created
update_gmail_watch(state, expires_at) ==
    IF "gmail" \in DOMAIN state
    THEN [state EXCEPT !["gmail"].gmail_watch_expires_at = Some(expires_at)]
    ELSE state

\* PushRepo.touch_pubsub
touch_pubsub(state) ==
    IF "gmail" \in DOMAIN state
    THEN [state EXCEPT !["gmail"].push_state = "healthy"]
    ELSE state

\* PushRepo.get_outlook_delta_link: the value read, after _ensure_row
get_outlook_delta_link(state) == ensure_row(state, "outlook")["outlook"].graph_delta_link

\* PushRepo.set_outlook_delta_link
set_outlook_delta_link(state, link) ==
    IF "outlook" \in DOMAIN state
    THEN [state EXCEPT !["outlook"].graph_delta_link = Some(link)]
    ELSE state

\* PushRepo.touch_poll
touch_poll(state, provider) == ensure_row(state, provider)

\* PushRepo.set_push_state, for one of the three valid states
set_push_state(state, provider, push_state) ==
    [ensure_row(state, provider) EXCEPT ![provider].push_state = push_state]

\* The stored cursor of a provider as a number; no row and NULL come first
Cursor(state, provider) ==
    IF provider \notin DOMAIN state THEN -1
    ELSE LET c == IF provider = "gmail" THEN state[provider].gmail_last_history_id
                  ELSE state[provider].graph_delta_link
         IN  IF IsNull(c) THEN -1 ELSE Val(c)

\* The stored health of a provider; "none" while it has no row
Health(state, provider) ==
    IF provider \in DOMAIN state THEN state[provider].push_state ELSE "none"

(***************************************************************************)
(* Normalizers.  A raw message of either provider is                       *)
(* [id, thread, subject, date]: thread is threadId / conversationId and    *)
(* may be None or empty, date is the parsed date or NULL when the header   *)
(* is missing or does not parse.                                           *)
(***************************************************************************)
\* webhooks/svc.py to_normalized_gmail
to_normalized_gmail(gmail_msg) ==
    [id |-> gmail_msg.id,
     thread_id |-> IF Falsy(gmail_msg.thread) \/ Strip(gmail_msg.thread) = ""
                   THEN gmail_msg.id ELSE gmail_msg.thread,
     provider |-> "gmail",
     subject |-> gmail_msg.subject,
     received_at |-> gmail_msg.date]

\* providers/outlook_delta.py to_normalized_outlook
to_normalized_outlook(outlook_msg) ==
    [id |-> outlook_msg.id,
     thread_id |-> outlook_msg.thread,
     provider |-> "outlook",
     subject |-> outlook_msg.subject,
     received_at |-> outlook_msg.date]

\* Python's str(x or "")
StrOrEmpty(x) == IF Falsy(x) THEN "" ELSE x

DaysFallback == 365
SecondsPerDay == 86400
SecondsPerHour == 3600

\* monitor.py parse_email_date: a datetime is kept, anything else is a year ago
parse_email_date(val, t) ==
    IF IsNull(val) THEN Some(t - DaysFallback * SecondsPerDay) ELSE val

(***************************************************************************)
(* Notification: send_telegram_digest, mark_notified and the two queries   *)
(* of the sweep and of the poll digest.                                    *)
(***************************************************************************)
\* send_telegram_digest with Telegram configured: the digest POST and, when
\* it fails, the fallback POST meet the same Telegram; nothing is raised.
send_telegram_digest(up) == IF up THEN "delivered" ELSE "failed"

HasTag(row, tag) == \E i \in 1..Len(row.tags) : row.tags[i] = tag

mark_notified_append(messages, email_id) ==
    IF email_id \in 1..Len(messages)
    THEN [messages EXCEPT ![email_id].tags = Append(@, "notified")]
    ELSE messages

\* EmailRepo.mark_notified
mark_notified(messages, email_id) ==
    IF email_id \in 1..Len(messages) /\ ~HasTag(messages[email_id], "notified")
    THEN [messages EXCEPT ![email_id].tags = Append(@, "notified")]
    ELSE messages

\* ORDER BY received_at ASC of a set of row ids whose received_at is not NULL
RECURSIVE OrderByReceived(_, _)
OrderByReceived(messages, ids) ==
    IF ids = {} THEN <<>>
    ELSE LET first == CHOOSE i \in ids : \A j \in ids :
                          \/ Val(messages[i].received_at) < Val(messages[j].received_at)
                          \/ /\ Val(messages[i].received_at) = Val(messages[j].received_at)
                             /\ i <= j
         IN  <<first>> \o OrderByReceived(messages, ids \ {first})

Reverse(seq) == [i \in 1..Len(seq) |-> seq[Len(seq) + 1 - i]]

Limit(seq, n) == SubSeq(seq, 1, IF Len(seq) < n THEN Len(seq) ELSE n)

InWindow(row, t, hours) ==
    /\ ~IsNull(row.received_at)
    /\ Val(row.received_at) >= t - hours * SecondsPerHour

\* EmailRepo.list_recent_unnotified: the ids selected, in order
list_recent_unnotified(messages, t, since_hours, limit) ==
    Limit(OrderByReceived(messages,
                          {i \in 1..Len(messages) :
                              /\ InWindow(messages[i], t, since_hours)
                              /\ ~HasTag(messages[i], "notified")}),
          limit)

DigestHours == 24

\* EmailRepo.latest_new_messages: the ids selected, in order
latest_new_messages(messages, t, limit) ==
    Limit(Reverse(OrderByReceived(messages,
                                  {i \in 1..Len(messages) : InWindow(messages[i], t, DigestHours)})),
          limit)

Range(seq) == {seq[i] : i \in 1..Len(seq)}

\* The record of the notification attempts one send made for the rows `ids`
Attempted(ids, path, outcome, marked) ==
    {[email_id |-> i, path |-> path, outcome |-> outcome, marked |-> marked] : i \in ids}

(***************************************************************************)
(* The ingestion cycles.  db is the part of storage a cycle works on:      *)
(* [threads, messages, attempts, delivered].                               *)
(***************************************************************************)
Db(threads, messages, att, dlv) ==
    [threads |-> threads, messages |-> messages, attempts |-> att, delivered |-> dlv]

\* The ids Telegram has accepted after a send for `ids`
Accepted(dlv, ids, up) == IF up THEN dlv \cup ids ELSE dlv

\* gmail_process_history, the body of the loop for one added message
ProcessGmailMessage(db, gmail_msg, t, up) ==
    IF get_email_id(db.messages, "gmail", gmail_msg.id) /= NoRow THEN db
    ELSE IF gmail_msg.broken THEN db
    ELSE LET nm == to_normalized_gmail(gmail_msg)
             r == upsert_email(db.threads, db.messages, t,
                               Args(nm.provider, nm.id, nm.thread_id, nm.subject, nm.received_at))
         IN  IF Falsy(nm.thread_id) \/ Strip(nm.thread_id) = "" THEN db
             ELSE IF r.raised THEN db
             ELSE Db(r.threads,
                     mark_notified(r.messages, r.id),
                     db.attempts \cup Attempted({r.id}, "webhook", send_telegram_digest(up), TRUE),
                     Accepted(db.delivered, {r.id}, up))

\* A history loop that gives up after the first record when Telegram is down
RECURSIVE ProcessGmailHistory_abort(_, _, _, _)
ProcessGmailHistory_abort(db, items, t, up) ==
    IF items = <<>> THEN db
    ELSE IF ~up THEN ProcessGmailMessage(db, Head(items), t, up)
    ELSE ProcessGmailHistory_abort(ProcessGmailMessage(db, Head(items), t, up),
                                   Tail(items), t, up)

\* gmail_process_history lines 302-360: the loop over the fetched records
RECURSIVE ProcessGmailHistory(_, _, _, _)
ProcessGmailHistory(db, items, t, up) ==
    IF items = <<>> THEN db
    ELSE ProcessGmailHistory(ProcessGmailMessage(db, Head(items), t, up), Tail(items), t, up)

\* Upstream's answer to a page request: PageSize of the changes, from the
\* offset the request names; more |-> do changes remain after this page
Page(changes, offset) ==
    LET upto == IF offset + PageSize < Len(changes) THEN offset + PageSize ELSE Len(changes)
    IN  [items |-> SubSeq(changes, offset + 1, upto), upto |-> upto,
         more |-> upto < Len(changes)]

\* gmail_history_list with history_result.get("history"): one request for
\* the messages added after start_history_id, no page token is ever sent;
\* the history id of a change is its position in the mailbox
gmail_history_list(mailbox, start_history_id) ==
    Page(SubSeq(mailbox, start_history_id + 1, Len(mailbox)), 0).items

\* gmail_process_history line 291
StartHid(read, incoming_hid) ==
    IF IsNull(read) \/ Val(read) = 0 THEN incoming_hid ELSE Val(read)

\* outlook_delta_list lines 28-55: the loop over the pages; a page carries
\* @odata.nextLink while changes remain and @odata.deltaLink when none do
RECURSIVE DeltaPages(_, _, _)
DeltaPages(mailbox, changes, url) ==
    LET data == Page(changes, url)
    IN  IF data.more
        THEN LET rest == DeltaPages(mailbox, changes, data.upto)
             IN  [items |-> data.items \o rest.items, delta |-> rest.delta]
        ELSE [items |-> data.items, delta |-> Some(Len(mailbox))]

\* outlook_delta_list: the changes after the delta link and the next delta
\* link; a delta link is the number of changes it has passed
outlook_delta_list(mailbox, delta_link) ==
    DeltaPages(mailbox,
               SubSeq(mailbox, (IF IsNull(delta_link) THEN 0 ELSE Val(delta_link)) + 1,
                      Len(mailbox)),
               0)

\* The items of outlook_delta_list
outlook_delta_changes(mailbox, delta_link) == outlook_delta_list(mailbox, delta_link).items

FETCH_COUNT == 10

\* get_latest_emails(provider, FETCH_COUNT): the most recent items
LatestEmails(mailbox) ==
    SubSeq(mailbox, IF Len(mailbox) > FETCH_COUNT THEN Len(mailbox) - FETCH_COUNT + 1 ELSE 1,
           Len(mailbox))

\* An email as the full-refetch provider hands it to monitor.main
Fetched(provider, raw) ==
    [id |-> raw.id, thread_id |-> raw.thread, provider |-> provider,
     subject |-> raw.subject, received_at |-> raw.date]

RECURSIVE MapFetched(_, _)
MapFetched(provider, raws) ==
    IF raws = <<>> THEN <<>>
    ELSE <<Fetched(provider, Head(raws))>> \o MapFetched(provider, Tail(raws))

RECURSIVE MapNormalizedOutlook(_)
MapNormalizedOutlook(raws) ==
    IF raws = <<>> THEN <<>>
    ELSE <<to_normalized_outlook(Head(raws))>> \o MapNormalizedOutlook(Tail(raws))

\* check_provider and check_outlook_delta: keep what get_email_id does not find
RECURSIVE FilterNew(_, _)
FilterNew(messages, emails) ==
    IF emails = <<>> THEN <<>>
    ELSE (IF get_email_id(messages, Head(emails).provider, Head(emails).id) = NoRow
          THEN <<Head(emails)>> ELSE <<>>) \o FilterNew(messages, Tail(emails))

\* monitor.main lines 384-409: store one new item
StorePolled(db, e, t) ==
    LET r == upsert_email(db.threads, db.messages, t,
                          Args(e.provider, StrOrEmpty(e.id), StrOrEmpty(e.thread_id),
                               e.subject, parse_email_date(e.received_at, t)))
    IN  IF r.raised THEN db ELSE Db(r.threads, r.messages, db.attempts, db.delivered)

RECURSIVE StoreAllPolled(_, _, _)
StoreAllPolled(db, emails, t) ==
    IF emails = <<>> THEN db
    ELSE StoreAllPolled(StorePolled(db, Head(emails), t), Tail(emails), t)

DigestLimit == 20

\* monitor.main lines 419-434: one digest for the latest messages, nothing is marked
PollDigest(db, any_new, t, up) ==
    LET rows == latest_new_messages(db.messages, t, DigestLimit)
    IN  IF any_new /\ rows /= <<>>
        THEN [db EXCEPT !.attempts = @ \cup Attempted(Range(rows), "poll",
                                                      IF up THEN "delivered" ELSE "failed", FALSE),
                        !.delivered = Accepted(@, Range(rows), up)]
        ELSE db

RECURSIVE MarkAll(_, _)
MarkAll(messages, ids) ==
    IF ids = <<>> THEN messages
    ELSE MarkAll(mark_notified(messages, Head(ids)), Tail(ids))

(***************************************************************************)
(* The pipeline, one handler per step: mail arrives upstream, the webhook  *)
(* runs a Gmail cycle, the poll job runs both providers, the two sweeps    *)
(* run, the watch is renewed, Telegram goes down and comes back.           *)
(***************************************************************************)
\* The shapes of a raw message that fetches and normalizes: complete, or
\* without thread id and date
WellFormedShapes(t) ==
    {[thread |-> "t1", date |-> Some(t), broken |-> FALSE],
     [thread |-> None, date |-> NULL, broken |-> FALSE]}

\* Every shape of a raw message; broken: fetching or normalizing it raises
\* (the message is gone when it is fetched, its "from" is null)
RawShapes(t) ==
    WellFormedShapes(t) \cup {[thread |-> "t1", date |-> Some(t), broken |-> TRUE]}

\* Does fetching and normalizing every record of the batch succeed
AllNormalize(raws) == \A k \in 1..Len(raws) : ~raws[k].broken

Mails == Len(upstream.gmail) + Len(upstream.outlook)

\* The raw message number k of a mailbox
Raw(prefix, k, shape) ==
    [id |-> prefix \o IntToStr(k), thread |-> shape.thread, subject |-> "Hello",
     date |-> shape.date, broken |-> shape.broken]

\* A message arrives in the Gmail mailbox and Pub/Sub is told its history id
GmailArrives(shapes, max) ==
    /\ Mails < max
    /\ \E shape \in shapes :
        LET hid == Len(upstream.gmail) + 1
        IN  upstream' = [upstream EXCEPT !.gmail = Append(@, Raw("g", hid, shape)),
                                         !.pubsub = @ \cup {hid}]
    /\ UNCHANGED <<email_threads, email_messages, now, history, proc,
                   provider_push_state, cycle, telegram_up, attempts, delivered, invocation,
                   applied>>

\* A message arrives in the Outlook inbox
OutlookArrives(shapes) ==
    /\ Mails < MaxMail
    /\ \E shape \in shapes :
        upstream' = [upstream EXCEPT
                        !.outlook = Append(@, Raw("o", Len(upstream.outlook) + 1, shape))]
    /\ UNCHANGED <<email_threads, email_messages, now, history, proc,
                   provider_push_state, cycle, telegram_up, attempts, delivered, invocation,
                   applied>>

NewGmail == GmailArrives(WellFormedShapes(now), MaxMail)

NewOutlook == OutlookArrives(WellFormedShapes(now))

\* gmail_hook with gmail_process_history, for the push of history id hid.
\* fetch: how loading the credentials and listing the history end.
\* Pub/Sub takes the push as acknowledged either way: the handler's
\* `return {"error": ...}, 500` is a tuple, which FastAPI sends as a JSON
\* array with status 200.
GmailHookRun(hid, fetch) ==
    /\ hid \in upstream.pubsub
    /\ LET touched == touch_pubsub(provider_push_state)
           read == get_gmail_last_history_id(touched)
           ensured == ensure_row(touched, "gmail")
           db == ProcessGmailHistory(Db(email_threads, email_messages, {}, delivered),
                                     gmail_history_list(upstream.gmail, StartHid(read, hid)),
                                     now, telegram_up)
       IN  IF fetch = "ok"
           THEN /\ email_threads' = db.threads
                /\ email_messages' = db.messages
                /\ attempts' = db.attempts
                /\ delivered' = db.delivered
                /\ provider_push_state' = set_gmail_last_history_id(ensured, hid)
           ELSE /\ provider_push_state' = set_push_state(ensured, "gmail", "degraded")
                /\ attempts' = {}
                /\ UNCHANGED <<email_threads, email_messages, delivered>>
    /\ upstream' = [upstream EXCEPT !.pubsub = @ \ {hid}]
    /\ UNCHANGED <<now, history, proc, cycle, telegram_up>>

\* gmail_watch_start: users.watch answers with the mailbox's current history
\* id and an expiration WatchDays after the call
WatchDays == 7
gmail_watch_start(mailbox, at) == [historyId |-> Len(mailbox), expiration |-> at + WatchDays]

\* push_lifecycle.run: the watch call answers with the mailbox's history
\* id and the expiry of the watch, or the credentials are rejected
WatchRenewRun(fetch) ==
    /\ provider_push_state' =
           IF fetch = "ok"
           THEN LET result == gmail_watch_start(upstream.gmail, now)
                IN  set_push_state(
                        update_gmail_watch(
                            set_gmail_last_history_id(provider_push_state, result.historyId),
                            result.expiration),
                        "gmail", "healthy")
           ELSE set_push_state(provider_push_state, "gmail", "down")
    /\ UNCHANGED <<email_threads, email_messages, now, history, proc,
                   cycle, telegram_up, attempts, delivered, upstream>>

\* check_provider for gmail: the new items, or raised when the fetch or the
\* normalizing of one of the latest messages fails
check_provider(messages, fetch) ==
    LET latest == LatestEmails(upstream.gmail)
    IN  IF fetch = "ok" /\ AllNormalize(latest)
        THEN [raised |-> FALSE, items |-> FilterNew(messages, MapFetched("gmail", latest))]
        ELSE [raised |-> TRUE, items |-> <<>>]

\* check_outlook_delta: an unauthenticated provider returns before the
\* link is read; any other failure is caught and gives no items either
check_outlook_delta(messages, state, fetch) ==
    LET delta_link == get_outlook_delta_link(state)
        changes == outlook_delta_changes(upstream.outlook, delta_link)
        read == ensure_row(state, "outlook")
    IN  IF fetch = "auth" THEN [items |-> <<>>, state |-> state]
        ELSE IF fetch /= "ok" \/ ~AllNormalize(changes) THEN [items |-> <<>>, state |-> read]
        ELSE [items |-> FilterNew(messages, MapNormalizedOutlook(changes)),
              state |-> touch_poll(set_outlook_delta_link(read, Len(upstream.outlook)),
                                   "outlook")]

\* monitor.main: the authentication check, the full refetch of Gmail, the
\* delta cycle of Outlook, the digest.
\* auth: the providers check_auth_status finds authenticated;
\* fetch: how each provider's fetch ends.
PollRun(auth, fetch) ==
    /\ LET db0 == Db(email_threads, email_messages, {}, delivered)
           g == check_provider(db0.messages, fetch["gmail"])
           db1 == StoreAllPolled(db0, g.items, now)
           state1 == IF g.items /= <<>> THEN touch_poll(provider_push_state, "gmail")
                     ELSE provider_push_state
           o == check_outlook_delta(db1.messages, state1, fetch["outlook"])
           db2 == StoreAllPolled(db1, o.items, now)
           db3 == PollDigest(db2, g.items /= <<>> \/ o.items /= <<>>, now, telegram_up)
       IN  IF auth /= PROVIDERS
           THEN /\ attempts' = {}
                /\ UNCHANGED <<email_threads, email_messages, delivered,
                               provider_push_state>>
           ELSE /\ email_threads' = db3.threads
                /\ email_messages' = db3.messages
                /\ attempts' = db3.attempts
                /\ delivered' = db3.delivered
                /\ provider_push_state' = o.state
    /\ UNCHANGED <<now, history, proc, cycle, telegram_up, upstream>>

\* The webhook, for any push in flight; the history fetch answers or fails
GmailHook ==
    /\ \E hid \in upstream.pubsub, fetch \in {"ok", "transient"} : GmailHookRun(hid, fetch)
    /\ UNCHANGED <<invocation, applied>>

\* The watch renewal job, the credentials being accepted
WatchRenew ==
    /\ WatchRenewRun("ok")
    /\ UNCHANGED <<invocation, applied>>

\* The poll job, both providers authenticated and answering
Poll ==
    /\ PollRun(PROVIDERS, [q \in PROVIDERS |-> "ok"])
    /\ UNCHANGED <<invocation, applied>>

SinceHours == 24
RetryLimit == 50
PendingLimit == 20

\* retry_notifications.main
RetryNotifications ==
    LET unnotified == list_recent_unnotified(email_messages, now, SinceHours, RetryLimit)
    IN  /\ email_messages' = MarkAll(email_messages, unnotified)
        /\ attempts' = Attempted(Range(unnotified), "retry",
                                 send_telegram_digest(telegram_up), TRUE)
        /\ delivered' = Accepted(delivered, Range(unnotified), telegram_up)
        /\ UNCHANGED <<email_threads, now, history, proc, provider_push_state,
                       cycle, telegram_up, upstream, invocation,
                   applied>>

\* notify_pending.main with Telegram configured
NotifyPending ==
    LET unnotified == list_recent_unnotified(email_messages, now, SinceHours, PendingLimit)
    IN  /\ IF telegram_up
           THEN /\ email_messages' = MarkAll(email_messages, unnotified)
                /\ attempts' = Attempted(Range(unnotified), "pending", "delivered", TRUE)
                /\ delivered' = delivered \cup Range(unnotified)
           ELSE /\ email_messages' = email_messages
                /\ attempts' = Attempted(Range(unnotified), "pending", "failed", FALSE)
                /\ delivered' = delivered
        /\ UNCHANGED <<email_threads, now, history, proc, provider_push_state,
                       cycle, telegram_up, upstream, invocation,
                   applied>>

\* A day passes
TickDay ==
    /\ now < MaxDays * SecondsPerDay
    /\ now' = now + SecondsPerDay
    /\ UNCHANGED <<email_threads, email_messages, history, proc,
                   provider_push_state, cycle, telegram_up, attempts, delivered, upstream, invocation,
                   applied>>

TelegramFlip ==
    /\ telegram_up' = ~telegram_up
    /\ UNCHANGED <<email_threads, email_messages, now, history, proc,
                   provider_push_state, cycle, attempts, delivered, upstream, invocation,
                   applied>>

InitNotify ==
    /\ email_threads = <<>>
    /\ email_messages = <<>>
    /\ now = 0
    /\ history = <<>>
    /\ proc = [p \in Procs |-> NoProc]
    /\ provider_push_state = <<>>
    /\ cycle = [w \in Workers |-> NoCycle]
    /\ telegram_up \in BOOLEAN
    /\ attempts = {}
    /\ delivered = {}
    /\ upstream = NoUpstream
    /\ invocation = NoInvocation
    /\ applied = NoApplied

NextNotify ==
    \/ NewGmail
    \/ NewOutlook
    \/ GmailHook
    \/ WatchRenew
    \/ Poll
    \/ RetryNotifications
    \/ NotifyPending
    \/ TickDay
    \/ TelegramFlip

SpecNotify == InitNotify /\ [][NextNotify]_vars

\* The sweeps have nothing left to do for the messages of the last day
SweepsCaughtUp ==
    list_recent_unnotified(email_messages, now, SinceHours, RetryLimit) = <<>>

\* A day passes, the scheduled sweeps having run during it
SweptTickDay ==
    /\ SweepsCaughtUp
    /\ TickDay

NextFairNotify ==
    \/ NewGmail
    \/ NewOutlook
    \/ GmailHook
    \/ WatchRenew
    \/ Poll
    \/ RetryNotifications
    \/ NotifyPending
    \/ SweptTickDay
    \/ TelegramFlip

\* The schedulers run the sweeps again and again; Telegram, the mailboxes
\* and the clock owe nothing.
FairSpecNotify ==
    /\ InitNotify
    /\ [][NextFairNotify]_vars
    /\ WF_vars(RetryNotifications)
    /\ WF_vars(NotifyPending)

Stored(i) == i <= Len(email_messages)

Notified(i) == Stored(i) /\ HasTag(email_messages[i], "notified")

(***************************************************************************)
(* C7.  At-least-once marking: every ingested message eventually carries   *)
(* the 'notified' tag once the sweeps have run often enough, whichever     *)
(* path ingested it and however many deliveries failed before.             *)
(***************************************************************************)
C7_EventuallyNotified ==
    \A i \in 1..MaxMail : [](Stored(i) => <>Notified(i))

(***************************************************************************)
(* C8.  At-least-once delivery: if Telegram eventually accepts deliveries  *)
(* for good, every ingested message eventually has a delivered             *)
(* notification.                                                           *)
(***************************************************************************)
C8_EventuallyDelivered ==
    (<>[]telegram_up) => \A i \in 1..MaxMail : [](Stored(i) => <>(i \in delivered))

(***************************************************************************)
(* C9.  Delivery and marking are decoupled: whenever the webhook cycle,    *)
(* notify_pending or retry_notifications attempts a delivery for a stored  *)
(* message, mark_notified is called for it after the attempt, whether the  *)
(* delivery succeeded or failed.                                           *)
(***************************************************************************)
C9_AlwaysMarked ==
    \A a \in attempts :
        a.path \in {"webhook", "pending", "retry"} => a.marked

(***************************************************************************)
(* C10.  Missing-thread-id fallback: a message that arrives without a      *)
(* provider thread id is stored under a thread whose provider_thread_id is *)
(* the message's own provider message id, on every ingestion path, and no  *)
(* thread row has an empty or null provider_thread_id.                     *)
(***************************************************************************)
RawOf(row) ==
    LET mailbox == IF row.provider = "gmail" THEN upstream.gmail ELSE upstream.outlook
    IN  mailbox[CHOOSE k \in 1..Len(mailbox) : mailbox[k].id = row.provider_message_id]

C10_ThreadIdFallback ==
    /\ \A i \in 1..Len(email_threads) : ~Falsy(email_threads[i].provider_thread_id)
    /\ \A i \in 1..Len(email_messages) :
        Falsy(RawOf(email_messages[i]).thread) =>
            email_threads[email_messages[i].thread_id].provider_thread_id
                = email_messages[i].provider_message_id

\* The number of times `tag` occurs in the tags of a row
TagCount(row, tag) == Cardinality({k \in 1..Len(row.tags) : row.tags[k] = tag})

\* The rows the two sweeps select now
Swept ==
    Range(list_recent_unnotified(email_messages, now, SinceHours, RetryLimit))
        \cup Range(list_recent_unnotified(email_messages, now, SinceHours, PendingLimit))

(***************************************************************************)
(* C13.  The sweep is idempotent: a message that carries the 'notified'    *)
(* tag is never selected by list_recent_unnotified, so a sweep sends       *)
(* nothing for it; mark_notified on it leaves its tags unchanged, and      *)
(* 'notified' occurs at most once in the tags of any message.              *)
(***************************************************************************)
C13_SweepIdempotent ==
    \A i \in 1..Len(email_messages) :
        /\ TagCount(email_messages[i], "notified") <= 1
        /\ Notified(i) =>
            /\ i \notin Swept
            /\ mark_notified(email_messages, i) = email_messages
            /\ \A a \in attempts :
                   (a.email_id = i /\ a.path \in {"retry", "pending"})
                       => a.marked /\ mark_notified(email_messages, i) = email_messages

\* A sweep has just run for another message while a tagged message of the
\* last day was stored: the tag, not the window, kept it out
C13_Witness ==
    \E i \in 1..Len(email_messages) :
        /\ Notified(i)
        /\ InWindow(email_messages[i], now, SinceHours)
        /\ \E a \in attempts : a.path \in {"retry", "pending"} /\ a.email_id /= i
        /\ \A a \in attempts : a.email_id /= i

(***************************************************************************)
(* Overlapping cycles.  Each worker runs a webhook cycle or a poll cycle   *)
(* one storage or network call at a time; nothing in the code holds a lock *)
(* or a transaction from the read of the cursor to its write.              *)
(***************************************************************************)
At(w, pc) == cycle[w].pc = pc

\* gmail_hook: the push of history id hid arrives and touch_pubsub runs
HookReceive(w) ==
    /\ At(w, "idle")
    /\ \E hid \in upstream.pubsub :
        cycle' = [cycle EXCEPT ![w] = [NoCycle EXCEPT !.pc = "read", !.incoming = hid]]
    /\ provider_push_state' = touch_pubsub(provider_push_state)
    /\ UNCHANGED <<email_threads, email_messages, now, history, proc,
                   telegram_up, attempts, delivered, upstream, invocation,
                   applied>>

\* gmail_process_history line 291: the stored cursor is read
HookRead(w) ==
    /\ At(w, "read")
    /\ LET read == get_gmail_last_history_id(provider_push_state)
       IN  cycle' = [cycle EXCEPT ![w].pc = "process", ![w].read = read,
                                  ![w].start = StartHid(read, cycle[w].incoming)]
    /\ provider_push_state' = ensure_row(provider_push_state, "gmail")
    /\ UNCHANGED <<email_threads, email_messages, now, history, proc,
                   telegram_up, attempts, delivered, upstream, invocation,
                   applied>>

\* gmail_process_history lines 294-360: the history is listed and its messages stored
HookProcess(w) ==
    /\ At(w, "process")
    /\ LET db == ProcessGmailHistory(Db(email_threads, email_messages, {}, delivered),
                                     gmail_history_list(upstream.gmail, cycle[w].start),
                                     now, telegram_up)
       IN  /\ email_threads' = db.threads
           /\ email_messages' = db.messages
           /\ attempts' = db.attempts
           /\ delivered' = db.delivered
    /\ cycle' = [cycle EXCEPT ![w].pc = "write"]
    /\ UNCHANGED <<now, history, proc, provider_push_state, telegram_up, upstream, invocation,
                   applied>>

\* gmail_process_history lines 366-370: the history fetch fails
HookFail(w) ==
    /\ At(w, "process")
    /\ provider_push_state' = set_push_state(provider_push_state, "gmail", "degraded")
    /\ upstream' = [upstream EXCEPT !.pubsub = @ \ {cycle[w].incoming}]
    /\ cycle' = [cycle EXCEPT ![w] = NoCycle]
    /\ UNCHANGED <<email_threads, email_messages, now, history, proc,
                   telegram_up, attempts, delivered, invocation,
                   applied>>

\* gmail_process_history line 363: the cursor is set to the incoming history id
HookWrite(w) ==
    /\ At(w, "write")
    /\ provider_push_state' = set_gmail_last_history_id(provider_push_state, cycle[w].incoming)
    /\ upstream' = [upstream EXCEPT !.pubsub = @ \ {cycle[w].incoming}]
    /\ cycle' = [cycle EXCEPT ![w] = NoCycle]
    /\ UNCHANGED <<email_threads, email_messages, now, history, proc,
                   telegram_up, attempts, delivered, invocation,
                   applied>>

\* monitor.main, provider gmail: check_provider and the store loop
PollGmail(w) ==
    /\ At(w, "idle")
    /\ LET db0 == Db(email_threads, email_messages, {}, delivered)
           new_gmail == FilterNew(db0.messages, MapFetched("gmail", LatestEmails(upstream.gmail)))
           db1 == StoreAllPolled(db0, new_gmail, now)
       IN  /\ email_threads' = db1.threads
           /\ email_messages' = db1.messages
           /\ provider_push_state' = IF new_gmail /= <<>>
                                     THEN touch_poll(provider_push_state, "gmail")
                                     ELSE provider_push_state
           /\ cycle' = [cycle EXCEPT ![w] = [NoCycle EXCEPT !.pc = "delta_read",
                                                            !.any_new = new_gmail /= <<>>]]
    /\ UNCHANGED <<now, history, proc, telegram_up, attempts, delivered, upstream, invocation,
                   applied>>

\* check_outlook_delta line 236: the stored delta link is read
DeltaRead(w) ==
    /\ At(w, "delta_read")
    /\ cycle' = [cycle EXCEPT ![w].pc = "delta_list",
                              ![w].read = get_outlook_delta_link(provider_push_state)]
    /\ provider_push_state' = ensure_row(provider_push_state, "outlook")
    /\ UNCHANGED <<email_threads, email_messages, now, history, proc,
                   telegram_up, attempts, delivered, upstream, invocation,
                   applied>>

\* check_outlook_delta lines 239-256: the changes are listed and filtered
DeltaList(w) ==
    /\ At(w, "delta_list")
    /\ cycle' = [cycle EXCEPT
                    ![w].pc = "delta_set",
                    ![w].next = Some(Len(upstream.outlook)),
                    ![w].items = FilterNew(email_messages,
                                           MapNormalizedOutlook(
                                               outlook_delta_changes(upstream.outlook,
                                                                     cycle[w].read)))]
    /\ UNCHANGED <<email_threads, email_messages, now, history, proc,
                   provider_push_state, telegram_up, attempts, delivered, upstream, invocation,
                   applied>>

\* check_outlook_delta lines 258-262: the next delta link is stored
DeltaSet(w) ==
    /\ At(w, "delta_set")
    /\ provider_push_state' =
           touch_poll(set_outlook_delta_link(provider_push_state, Val(cycle[w].next)), "outlook")
    /\ cycle' = [cycle EXCEPT ![w].pc = "store"]
    /\ UNCHANGED <<email_threads, email_messages, now, history, proc,
                   telegram_up, attempts, delivered, upstream, invocation,
                   applied>>

\* monitor.main lines 384-434: the store loop for outlook, then the digest
PollStore(w) ==
    /\ At(w, "store")
    /\ LET db0 == Db(email_threads, email_messages, {}, delivered)
           db1 == StoreAllPolled(db0, cycle[w].items, now)
           db2 == PollDigest(db1, cycle[w].any_new \/ cycle[w].items /= <<>>, now, telegram_up)
       IN  /\ email_threads' = db2.threads
           /\ email_messages' = db2.messages
           /\ attempts' = db2.attempts
           /\ delivered' = db2.delivered
    /\ cycle' = [cycle EXCEPT ![w] = NoCycle]
    /\ UNCHANGED <<now, history, proc, provider_push_state, telegram_up, upstream, invocation,
                   applied>>

NextCursor ==
    \/ NewGmail
    \/ NewOutlook
    \/ \E w \in Workers :
        \/ HookReceive(w)
        \/ HookRead(w)
        \/ HookProcess(w)
        \/ HookFail(w)
        \/ HookWrite(w)
        \/ PollGmail(w)
        \/ DeltaRead(w)
        \/ DeltaList(w)
        \/ DeltaSet(w)
        \/ PollStore(w)

SpecCursor == Init /\ [][NextCursor]_vars

CursorProviders == {"gmail", "outlook"}

(***************************************************************************)
(* C5.  Cursor monotonicity: whatever the order in which cycles complete,  *)
(* the stored cursor of a provider never takes a value earlier than one    *)
(* already persisted.                                                      *)
(***************************************************************************)
C5_CursorMonotonic ==
    [][\A q \in CursorProviders :
           Cursor(provider_push_state', q) >= Cursor(provider_push_state, q)]_vars

\* Worker w writes the cursor of provider q in this step
WritesCursor(w, q) ==
    \/ q = "gmail" /\ At(w, "write") /\ cycle'[w].pc = "idle"
    \/ q = "outlook" /\ At(w, "delta_set") /\ cycle'[w].pc = "store"

\* The cursor of q that worker w read at the start of its cycle
CursorRead(w) == IF IsNull(cycle[w].read) THEN -1 ELSE Val(cycle[w].read)

(***************************************************************************)
(* C6.  Cursor updates of one provider are serialized: when a cycle writes *)
(* the cursor and a concurrent cycle has written it since this cycle read  *)
(* it, the write does not replace the fresher cursor by an older one.      *)
(***************************************************************************)
C6_CursorSerialized ==
    [][\A w \in Workers, q \in CursorProviders :
           (WritesCursor(w, q) /\ Cursor(provider_push_state, q) /= CursorRead(w))
               => Cursor(provider_push_state', q) >= Cursor(provider_push_state, q)]_vars

(***************************************************************************)
(* Ingestion with its failures.  Mail of every shape arrives, the webhook, *)
(* the poll job and the watch renewal run with every outcome of their      *)
(* fetches, and each run leaves its record in `invocation`.                *)
(***************************************************************************)
\* The ids of the message rows a run inserted
Created(before, after) == (Len(before) + 1)..Len(after)

\* The providers whose stored cursor is later in `after` than in `before`
Advanced(before, after) == {q \in PROVIDERS : Cursor(after, q) > Cursor(before, q)}

\* The provider message ids of a sequence of raw records
Ids(raws) == {raws[k].id : k \in 1..Len(raws)}

\* gmail_process_history lines 291-295: the records the history fetch returns
HookBatch(hid) ==
    gmail_history_list(upstream.gmail,
                       StartHid(get_gmail_last_history_id(provider_push_state), hid))

\* The records the two fetches of monitor.main return
PollBatch(fetch) ==
    (IF fetch["gmail"] = "ok" THEN Ids(LatestEmails(upstream.gmail)) ELSE {})
        \cup (IF fetch["outlook"] = "ok"
              THEN Ids(outlook_delta_changes(upstream.outlook,
                                             get_outlook_delta_link(provider_push_state)))
              ELSE {})

NewGmailAny == GmailArrives(RawShapes(now), MaxMail)

NewOutlookAny == OutlookArrives(RawShapes(now))

GmailHookLogged ==
    \E hid \in upstream.pubsub, fetch \in FetchOutcomes :
        /\ GmailHookRun(hid, fetch)
        /\ UNCHANGED applied
        /\ invocation' =
               [NoInvocation EXCEPT
                   !.job = "hook", !.auth = PROVIDERS, !.ran = {"gmail"},
                   !.fetch["gmail"] = fetch, !.incoming = hid,
                   !.batch = IF fetch = "ok" THEN Ids(HookBatch(hid)) ELSE {},
                   !.created = Created(email_messages, email_messages'),
                   !.advanced = Advanced(provider_push_state, provider_push_state'),
                   !.raised = fetch /= "ok"]

WatchRenewLogged ==
    \E fetch \in {"ok", "auth"} :
        /\ WatchRenewRun(fetch)
        /\ UNCHANGED applied
        /\ invocation' =
               [NoInvocation EXCEPT
                   !.job = "watch", !.auth = PROVIDERS, !.ran = {"gmail"},
                   !.fetch["gmail"] = fetch,
                   !.advanced = Advanced(provider_push_state, provider_push_state'),
                   !.raised = fetch /= "ok"]

\* The fetch outcomes of one run of the poll job: at most one provider fails
PollFetches == {f \in [PROVIDERS -> FetchOutcomes] : \E q \in PROVIDERS : f[q] = "ok"}

\* monitor.main lines 349-355 and 374-382: what the run sends to Telegram
\* about its failures
PollAlerts(auth, fetch) ==
    IF auth /= PROVIDERS THEN {"authentication"}
    ELSE IF check_provider(email_messages, fetch["gmail"]).raised THEN {"gmail"}
    ELSE {}

PollLogged ==
    \E auth \in SUBSET PROVIDERS, fetch \in PollFetches :
        /\ auth /= PROVIDERS => \A q \in PROVIDERS : fetch[q] = "ok"
        /\ PollRun(auth, fetch)
        /\ UNCHANGED applied
        /\ invocation' =
               [NoInvocation EXCEPT
                   !.job = "poll", !.auth = auth,
                   !.ran = IF auth = PROVIDERS THEN PROVIDERS ELSE {},
                   !.fetch = IF auth = PROVIDERS THEN fetch ELSE @,
                   !.batch = IF auth = PROVIDERS THEN PollBatch(fetch) ELSE {},
                   !.created = Created(email_messages, email_messages'),
                   !.advanced = Advanced(provider_push_state, provider_push_state'),
                   !.alerts = PollAlerts(auth, fetch)]

NextIngest ==
    \/ NewGmailAny
    \/ NewOutlookAny
    \/ GmailHookLogged
    \/ WatchRenewLogged
    \/ PollLogged

SpecIngest == InitNotify /\ [][NextIngest]_vars

(***************************************************************************)
(* C11.  Provider isolation: within one run of the poll job, a failure of  *)
(* one provider (fetch error or missing authentication) does not prevent   *)
(* the other provider's cycle from running: the cycle of every             *)
(* authenticated provider is entered.                                      *)
(***************************************************************************)
C11_ProviderIsolation ==
    invocation.job = "poll" => \A q \in invocation.auth : q \in invocation.ran

(***************************************************************************)
(* C12.  The dispatcher fires only for genuinely new messages: a webhook   *)
(* cycle or a poll run sends a notification for a message only if that     *)
(* run's insert created the message row.                                   *)
(***************************************************************************)
C12_NotifyOnlyCreated ==
    invocation.job \in {"hook", "poll"} =>
        \A a \in attempts :
            a.path \in {"webhook", "poll"} => a.email_id \in invocation.created

(***************************************************************************)
(* C14.  Health on success: after an ingestion cycle of a provider (Gmail  *)
(* push cycle, Outlook delta cycle) that advanced the cursor without a     *)
(* fatal error, that provider's stored health is 'healthy'.                *)
(***************************************************************************)
C14_HealthyAfterSuccess ==
    (invocation.job \in {"hook", "poll"} /\ ~invocation.raised) =>
        \A q \in invocation.advanced :
            invocation.fetch[q] = "ok" => Health(provider_push_state, q) = "healthy"

(***************************************************************************)
(* C15.  Transient upstream error: a cycle whose change fetch fails with a *)
(* transient error sets the provider's health to 'degraded' and leaves its *)
(* stored cursor unchanged.                                                *)
(***************************************************************************)
C15_TransientDegrades ==
    [][\A q \in PROVIDERS :
           (invocation'.job \in {"hook", "poll"} /\ invocation'.fetch[q] = "transient") =>
               /\ Health(provider_push_state', q) = "degraded"
               /\ Cursor(provider_push_state', q) = Cursor(provider_push_state, q)]_vars

\* The run failed for q because credentials were rejected or were missing,
\* or because upstream did not know the cursor
AuthOrStale(q) ==
    \/ invocation.fetch[q] \in {"auth", "stale"}
    \/ invocation.job = "poll" /\ q \notin invocation.auth

(***************************************************************************)
(* C16.  Authentication failure or stale cursor: after a run that failed   *)
(* for a provider because its credentials were rejected or upstream did    *)
(* not know the cursor, the provider's health is 'down' and the alerting   *)
(* collaborator has been told.                                             *)
(***************************************************************************)
C16_DownAndAlerted ==
    \A q \in PROVIDERS :
        AuthOrStale(q) =>
            /\ Health(provider_push_state, q) = "down"
            /\ invocation.alerts /= {}

(***************************************************************************)
(* C17.  'down' is left only through re-subscription: while the health of  *)
(* the push provider is 'down', no step but the watch renewal job advances *)
(* its cursor or makes its health 'healthy'.                               *)
(***************************************************************************)
C17_DownUntilRenewed ==
    [][(Health(provider_push_state, "gmail") = "down" /\ invocation'.job /= "watch") =>
           /\ Health(provider_push_state', "gmail") /= "healthy"
           /\ Cursor(provider_push_state', "gmail") <= Cursor(provider_push_state, "gmail")]_vars

\* The raw record with provider message id `id`
RawById(id) ==
    LET all == upstream.gmail \o upstream.outlook
    IN  all[CHOOSE k \in 1..Len(all) : all[k].id = id]

\* Is the record with provider message id `id` stored
StoredId(id) == \E i \in 1..Len(email_messages) : email_messages[i].provider_message_id = id

(***************************************************************************)
(* C18.  One bad record never aborts a cycle: after a run whose fetches    *)
(* answered, every record of its batches that fetches and normalizes is    *)
(* stored, whatever the other records of the batch are.                    *)
(***************************************************************************)
C18_BadRecordSkipped ==
    \A id \in invocation.batch : ~RawById(id).broken => StoredId(id)

\* A Gmail mailbox long enough for a push cycle to fetch several records
NewGmailPush == GmailArrives(RawShapes(now), MaxPushMail)

\* The push side alone: mail arrives, the webhook and the watch renewal run
NextPush ==
    \/ NewGmailPush
    \/ GmailHookLogged
    \/ WatchRenewLogged

SpecPush == InitNotify /\ [][NextPush]_vars

\* The latest run was the webhook and a digest it sent was not delivered
HookDeliveryFailed ==
    /\ invocation.job = "hook"
    /\ \E a \in attempts : a.path = "webhook" /\ a.outcome = "failed"

(***************************************************************************)
(* C19.  Notification delivery failure is never fatal to ingestion: a push *)
(* cycle in which the digest of a stored record could not be delivered     *)
(* raises nothing, stores the records that follow, advances the cursor to  *)
(* the pushed history id and leaves the health 'healthy'.                  *)
(***************************************************************************)
C19_DeliveryFailureNotFatal ==
    HookDeliveryFailed =>
        /\ ~invocation.raised
        /\ \A id \in invocation.batch : ~RawById(id).broken => StoredId(id)
        /\ Cursor(provider_push_state, "gmail") = invocation.incoming
        /\ Health(provider_push_state, "gmail") = "healthy"

\* a push cycle stored two records although Telegram was down
C19_Witness ==
    /\ HookDeliveryFailed
    /\ Cardinality(invocation.created) >= 2
    /\ \A id \in invocation.created :
           \E a \in attempts : a.email_id = id /\ a.outcome = "failed"

\* The position of the record with provider message id `id` in the Gmail
\* mailbox: the history id of its message-added event
HistoryIdOf(id) == CHOOSE k \in 1..Len(upstream.gmail) : upstream.gmail[k].id = id

\* The message-added events the latest push cycle received: the pushed
\* history id and the records its history fetch returned
Received ==
    IF invocation.job = "hook" /\ invocation.fetch["gmail"] = "ok"
    THEN {invocation.incoming} \cup {HistoryIdOf(id) : id \in invocation.batch}
    ELSE {}

(***************************************************************************)
(* C20.  Nothing missed stays missed: a push cycle never leaves the stored *)
(* cursor at or past a message-added event it received whose record is     *)
(* well-formed and not stored, because later cycles list only what lies    *)
(* after the cursor.                                                       *)
(***************************************************************************)
C20_NothingSkipped ==
    \A k \in Received :
        (~upstream.gmail[k].broken /\ k <= Cursor(provider_push_state, "gmail")) =>
            StoredId(upstream.gmail[k].id)

(***************************************************************************)
(* Functions applied to inputs drawn from bounded sets.                    *)
(***************************************************************************)
\* Every variable but applied
program_vars == <<email_threads, email_messages, now, history, proc, provider_push_state,
                  cycle, telegram_up, attempts, delivered, upstream, invocation>>

\* The function fn maps input to output
Applied(fn, input, output) ==
    /\ applied' = [fn |-> fn, input |-> input, output |-> output]
    /\ UNCHANGED program_vars

\* A mailbox of n messages of one shape
Mailbox(prefix, n, shape) == [k \in 1..n |-> Raw(prefix, k, shape)]

ApplyHistoryList ==
    \E n \in 0..MaxPaged, shape \in WellFormedShapes(now) :
        \E start \in 0..n :
            Applied("gmail_history_list", <<Mailbox("g", n, shape), start>>,
                    gmail_history_list(Mailbox("g", n, shape), start))

ApplyDeltaList ==
    \E n \in 0..MaxPaged, shape \in WellFormedShapes(now) :
        \E link \in {NULL} \cup {Some(k) : k \in 0..n} :
            Applied("outlook_delta_list", <<Mailbox("o", n, shape), link>>,
                    outlook_delta_list(Mailbox("o", n, shape), link))

\* urlsafe_b64decode(data + "==").decode() of the body data the trees carry
b64decode(data) == IF data = "YQ" THEN "a" ELSE IF data = "Yg" THEN "b" ELSE ""

\* _extract_bodies.walk: the part itself, then its sub-parts in order; the
\* first text/plain and the first text/html part with data are kept
RECURSIVE walk(_, _, _)
walk(acc, part, k) ==
    IF k = 0
    THEN LET here == IF part.data = "" THEN acc
                     ELSE IF part.mimeType = "text/plain" /\ acc.text = None
                          THEN [acc EXCEPT !.text = b64decode(part.data)]
                     ELSE IF part.mimeType = "text/html" /\ acc.html = None
                          THEN [acc EXCEPT !.html = b64decode(part.data)]
                     ELSE acc
         IN  walk(here, part, 1)
    ELSE IF k > Len(part.parts) THEN acc
    ELSE walk(walk(acc, part.parts[k], 0), part, k + 1)

\* gmail.py _extract_bodies
extract_bodies(payload) == walk([text |-> None, html |-> None], payload, 0)

\* to_normalized_gmail.extract_body: the part itself, then its sub-parts in
\* order; every text/plain and text/html part with data is assigned
RECURSIVE extract_body(_, _, _)
extract_body(acc, part, k) ==
    IF k = 0
    THEN LET here == IF part.mimeType = "text/plain" /\ part.data /= ""
                     THEN [acc EXCEPT !.text = b64decode(part.data)]
                     ELSE IF part.mimeType = "text/html" /\ part.data /= ""
                     THEN [acc EXCEPT !.html = b64decode(part.data)]
                     ELSE acc
         IN  extract_body(here, part, 1)
    ELSE IF k > Len(part.parts) THEN acc
    ELSE extract_body(extract_body(acc, part.parts[k], 0), part, k + 1)

\* to_normalized_gmail lines 219-239: body_text and body_html
webhook_bodies(payload) == extract_body([text |-> "", html |-> ""], payload, 0)

\* The parts of a message tree: leaves with a body and multipart nodes
Leaf(mime, data) == [mimeType |-> mime, data |-> data, parts |-> <<>>]

Multipart(parts) == [mimeType |-> "multipart/alternative", data |-> "", parts |-> parts]

Leaves == {Leaf(mime, data) : mime \in {"text/plain", "text/html"}, data \in {"", "YQ", "Yg"}}

\* Message trees of up to two leaves, flat or nested
Payloads ==
    Leaves
        \cup {Multipart(<<l1, l2>>) : l1, l2 \in Leaves}
        \cup {Multipart(<<l1, Multipart(<<l2>>)>>) : l1, l2 \in Leaves}
        \cup {Multipart(<<Multipart(<<l1>>), l2>>) : l1, l2 \in Leaves}

ApplyExtractBodies ==
    \E payload \in Payloads :
        \/ Applied("_extract_bodies", payload, extract_bodies(payload))
        \/ Applied("extract_body", payload, webhook_bodies(payload))

\* Well-typed provider payloads with fields missing.  A missing key is None;
\* headers are the `name` values of the header entries, None for an entry
\* without name; sender is "absent", "null" or "present".
GmailPayloads ==
    [id : {None, "g1"}, threadId : {None, "", "t1"},
     headers : {<<>>, <<"Subject">>, <<None>>, <<"Subject", None>>}]

OutlookPayloads ==
    [id : {None, "o1"}, conversationId : {None, "c1"}, sender : {"absent", "null", "present"}]

\* to_normalized_gmail on a payload: header["name"] (line 206) and
\* gmail_msg["id"] (lines 255, 259) raise KeyError on a missing key
normalize_gmail(gmail_msg) ==
    IF \/ \E k \in 1..Len(gmail_msg.headers) : gmail_msg.headers[k] = None
       \/ gmail_msg.id = None
    THEN [raised |-> TRUE, value |-> None]
    ELSE [raised |-> FALSE,
          value |-> to_normalized_gmail(
                        [id |-> gmail_msg.id, thread |-> gmail_msg.threadId,
                         subject |-> IF \E k \in 1..Len(gmail_msg.headers) :
                                            gmail_msg.headers[k] = "Subject"
                                     THEN "Hello" ELSE "",
                         date |-> NULL])]

\* to_normalized_outlook on a payload: outlook_msg.get("from", {}) is None
\* for a null sender and .get on it raises (line 79); outlook_msg["id"]
\* raises KeyError on a missing key (line 107)
normalize_outlook(outlook_msg) ==
    IF outlook_msg.sender = "null" \/ outlook_msg.id = None
    THEN [raised |-> TRUE, value |-> None]
    ELSE [raised |-> FALSE,
          value |-> to_normalized_outlook(
                        [id |-> outlook_msg.id, thread |-> outlook_msg.conversationId,
                         subject |-> "", date |-> NULL])]

ApplyNormalize ==
    \/ \E gmail_msg \in GmailPayloads :
           Applied("to_normalized_gmail", gmail_msg, normalize_gmail(gmail_msg))
    \/ \E outlook_msg \in OutlookPayloads :
           Applied("to_normalized_outlook", outlook_msg, normalize_outlook(outlook_msg))

\* Subjects with reply and forward prefixes in several letter cases
PrefixedSubjects == {"X", "Re: X", "re: X", "fw: X", "Fwd: X", "Re: Fwd: X", "Other"}

ApplyRelated ==
    \E subject1, subject2 \in PrefixedSubjects :
        Applied("_subjects_are_related", <<subject1, subject2>>,
                subjects_are_related(subject1, subject2))

\* Python's `a or b`
Or(a, b) == IF Falsy(a) THEN b ELSE a

\* check_provider lines 292-297: the id under which an email is looked up
checked_message_id(email) ==
    Or(email.id, Or(email.internet_message_id, Or(email.message_id,
       email.subject \o "_" \o email.from \o "_" \o email.date)))

\* monitor.main line 389: the id under which an email is stored
stored_message_id(email) ==
    StrOrEmpty(Or(email.id, Or(email.message_id, Or(email.internet_message_id, ""))))

\* The emails a provider may hand over at time t: each id field absent,
\* empty or set
FetchedEmails(t) ==
    [id : {None, "", "i1"}, message_id : {None, "", "<m1>"},
     internet_message_id : {None, "", "<m1>", "<im1>"},
     subject : {"Hello"}, from : {"a@x"}, date : {IntToStr(t)}]

\* One cycle of main stores the email in an empty database, the
\* check_provider of the next cycle looks it up
ApplyDedup ==
    \E email \in FetchedEmails(now), provider \in PROVIDERS :
        LET stored == upsert_email(<<>>, <<>>, now,
                                   Args(provider, stored_message_id(email), "t1",
                                        email.subject, Some(now)))
            found == get_email_id(stored.messages, provider, checked_message_id(email))
        IN  Applied("check_provider", email,
                    [stored_as |-> stored_message_id(email),
                     looked_up |-> checked_message_id(email),
                     raised |-> stored.raised,
                     new_again |-> found = NoRow])

NextPure ==
    \/ ApplyHistoryList
    \/ ApplyDedup
    \/ ApplyDeltaList
    \/ ApplyRelated
    \/ ApplyExtractBodies
    \/ ApplyNormalize

SpecPure == InitNotify /\ [][NextPure]_vars

\* The changes of a mailbox after a cursor
After(mailbox, cursor) == SubSeq(mailbox, cursor + 1, Len(mailbox))

(***************************************************************************)
(* C21.  Cursor-replay completeness: the Gmail history fetch and the       *)
(* Outlook delta fetch return every change between the start cursor and    *)
(* the new cursor, over however many pages upstream serves them; the delta *)
(* fetch also returns the terminal cursor.                                 *)
(***************************************************************************)
C21_ReplayComplete ==
    /\ applied.fn = "gmail_history_list" =>
           applied.output = After(applied.input[1], applied.input[2])
    /\ applied.fn = "outlook_delta_list" =>
           /\ applied.output.items =
                  After(applied.input[1],
                        IF IsNull(applied.input[2]) THEN 0 ELSE Val(applied.input[2]))
           /\ applied.output.delta = Some(Len(applied.input[1]))

(***************************************************************************)
(* C22.  The push endpoint does not lose the cursor value: once the        *)
(* endpoint has returned, the history id of the push it accepted is stored *)
(* as the Gmail cursor or is still held by Pub/Sub for a later delivery,   *)
(* also when gmail_process_history raised.                                 *)
(***************************************************************************)
C22_HistoryIdKept ==
    invocation.job = "hook" =>
        \/ provider_push_state["gmail"].gmail_last_history_id = Some(invocation.incoming)
        \/ invocation.incoming \in upstream.pubsub

(***************************************************************************)
(* C23.  Thread id uniqueness across splits: no two thread rows carry the  *)
(* same (provider, provider_thread_id), and no call fails because the id   *)
(* a split minted is already taken, also when two splits of one thread id  *)
(* happen within the same clock second.                                    *)
(***************************************************************************)
C23_SplitIdsUnique ==
    /\ \A i, j \in 1..Len(email_threads) :
           (/\ email_threads[i].provider = email_threads[j].provider
            /\ email_threads[i].provider_thread_id = email_threads[j].provider_thread_id)
               => i = j
    /\ \A k \in 1..Len(history) : ~history[k].raised

\* A row without its tags
Untagged(row) == [row EXCEPT !.tags = <<>>]

C25_ReingestKeepsThreads ==
    [][(/\ Len(history') > Len(history)
        /\ history'[Len(history')].stored /= NoRow)
           => email_threads' = email_threads]_vars

\* The call that has just completed found a thread for its (provider,
\* provider_thread_id) whose stored subject is related to its own
FoundRelated(h) ==
    /\ h.original /= NoRow
    /\ subjects_are_related(h.original_subject, h.args.subject)

(***************************************************************************)
(* C26.  Related subject, most recent wins: when the upsert_thread of a    *)
(* call finds a thread for (provider, provider_thread_id) whose stored     *)
(* subject is related to the incoming one, it returns the id of that       *)
(* thread, no thread row is inserted, and the stored subject afterwards is *)
(* the incoming subject.                                                   *)
(***************************************************************************)
C26_MostRecentWins ==
    [][(Len(history') > Len(history) /\ FoundRelated(history'[Len(history')])) =>
           LET h == history'[Len(history')]
           IN  /\ upsert_thread(email_threads, now, h.args.provider,
                                h.args.provider_thread_id, h.args.subject).id = h.original
               /\ h.stored = NoRow => email_messages'[h.id].thread_id = h.original
               /\ Len(email_threads') = Len(email_threads)
               /\ email_threads'[h.original].subject_last = h.args.subject]_vars

\* a call found a thread whose related stored subject differs from its own
C26_Witness ==
    \E k \in 1..Len(history) :
        /\ FoundRelated(history[k])
        /\ history[k].original_subject /= history[k].args.subject
        /\ history[k].stored = NoRow

(***************************************************************************)
(* C27.  Subject relatedness: for non-empty subjects _subjects_are_related *)
(* is true exactly when, after the leading Re:, Fwd:, Fw: prefixes in any  *)
(* letter case are stripped from both, the cleaned strings are equal or    *)
(* one is a substring of the other.                                        *)
(***************************************************************************)
C27_RelatedIffCleanedMatch ==
    applied.fn = "_subjects_are_related" =>
        LET one(s) == IF StartsWith(Lower(s), "re:") THEN Strip(Drop(s, 3))
                      ELSE IF StartsWith(Lower(s), "fwd:") THEN Strip(Drop(s, 4))
                      ELSE IF StartsWith(Lower(s), "fw:") THEN Strip(Drop(s, 3))
                      ELSE s
            cleaned(s) == Lower(one(one(one(Strip(s)))))
            c1 == cleaned(applied.input[1])
            c2 == cleaned(applied.input[2])
        IN  applied.output = (c1 = c2 \/ Contains(c2, c1) \/ Contains(c1, c2))

\* The parts of a message tree in depth-first order
RECURSIVE DepthFirst(_, _)
DepthFirst(part, k) ==
    IF k = 0 THEN <<part>> \o DepthFirst(part, 1)
    ELSE IF k > Len(part.parts) THEN <<>>
    ELSE DepthFirst(part.parts[k], 0) \o DepthFirst(part, k + 1)

\* The decoded body of the first part of a type that has data, or `neutral`
FirstBody(payload, mime, neutral) ==
    LET parts == DepthFirst(payload, 0)
        hits == {i \in 1..Len(parts) : parts[i].mimeType = mime /\ parts[i].data /= ""}
    IN  IF hits = {} THEN neutral
        ELSE b64decode(parts[CHOOSE i \in hits : \A j \in hits : i <= j].data)

(***************************************************************************)
(* C29.  Body selection: for a multi-part message tree both Gmail          *)
(* normalizers return as plain-text body the first text/plain part with    *)
(* data and as HTML body the first text/html part with data, in            *)
(* depth-first order; later parts of the same type do not replace them.    *)
(***************************************************************************)
C29_FirstBodyParts ==
    /\ applied.fn = "_extract_bodies" =>
           /\ applied.output.text = FirstBody(applied.input, "text/plain", None)
           /\ applied.output.html = FirstBody(applied.input, "text/html", None)
    /\ applied.fn = "extract_body" =>
           /\ applied.output.text = FirstBody(applied.input, "text/plain", "")
           /\ applied.output.html = FirstBody(applied.input, "text/html", "")

(***************************************************************************)
(* C30.  The normalizers are total: to_normalized_gmail and                *)
(* to_normalized_outlook return a record without raising for every         *)
(* well-typed payload, also when fields are missing (no id, no threadId, a *)
(* header entry without name, a null sender), and a missing subject maps   *)
(* to the empty string.                                                    *)
(***************************************************************************)
C30_NormalizersTotal ==
    applied.fn \in {"to_normalized_gmail", "to_normalized_outlook"} =>
        /\ ~applied.output.raised
        /\ applied.output.value.provider \in {"gmail", "outlook"}
        /\ (applied.fn = "to_normalized_gmail" /\ applied.input.headers = <<>>) =>
               applied.output.value.subject = ""

\* The latest calls of p and q were for two different messages of one
\* (provider, provider_thread_id) with related subjects, and the SELECT of
\* each found no thread: they overlapped while the thread was not stored
CreatedTogether(p, q) ==
    /\ p /= q
    /\ Ended(p) /\ Ended(q)
    /\ proc[p].existing = NoRow /\ proc[q].existing = NoRow
    /\ proc[p].args.provider = proc[q].args.provider
    /\ proc[p].args.provider_thread_id = proc[q].args.provider_thread_id
    /\ proc[p].args.provider_message_id /= proc[q].args.provider_message_id
    /\ subjects_are_related(proc[p].args.subject, proc[q].args.subject)

(***************************************************************************)
(* C28.  Concurrent thread creation is safe: when two upsert_email calls   *)
(* for two different messages of the same, not yet stored (provider,       *)
(* provider_thread_id) with related subjects overlap, then once both have  *)
(* ended neither has failed, one thread row exists for the id and both     *)
(* message rows reference it.                                              *)
(***************************************************************************)
C28_ConcurrentThreadCreation ==
    \A p, q \in Procs :
        CreatedTogether(p, q) =>
            LET m == proc[p].args
                rows == {i \in 1..Len(email_threads) :
                            /\ email_threads[i].provider = m.provider
                            /\ email_threads[i].provider_thread_id = m.provider_thread_id}
            IN  /\ proc[p].pc = "done" /\ proc[q].pc = "done"
                /\ Cardinality(rows) = 1
                /\ \A r \in {p, q} : email_messages[proc[r].ret].thread_id \in rows

(***************************************************************************)
(* PushRepo on its own: every method of the repository is an action on the *)
(* table, called with any argument.  applied records the method, the table *)
(* before the call with the arguments, and whether the call raised.        *)
(***************************************************************************)
valid_push_state_any(push_state) == TRUE

\* PushRepo.set_push_state line 91: the states the method accepts
valid_push_state(push_state) == push_state \in {"healthy", "degraded", "down"}

\* The states callers pass: the three health values and two others
PushStateArgs == {"healthy", "degraded", "down", "broken", "HEALTHY"}
HistoryIdArgs == 0..1
DeltaLinkArgs == 0..1

\* One call of a repository method: the table it leaves and what it raised
Called(fn, args, table, raised) ==
    /\ applied' = [fn |-> fn, input |-> <<provider_push_state, args>>, output |-> raised]
    /\ provider_push_state' = table
    /\ UNCHANGED <<email_threads, email_messages, now, history, proc, cycle,
                   telegram_up, attempts, delivered, upstream, invocation>>

GetGmailLastHistoryId ==
    Called("get_gmail_last_history_id", <<"gmail">>,
           ensure_row(provider_push_state, "gmail"), "")

SetGmailLastHistoryId ==
    \E hid \in HistoryIdArgs :
        Called("set_gmail_last_history_id", <<"gmail", hid>>,
               set_gmail_last_history_id(provider_push_state, hid), "")

UpdateGmailWatch ==
    Called("update_gmail_watch", <<"gmail", now + WatchDays>>,
           update_gmail_watch(provider_push_state, now + WatchDays), "")

TouchPubsub ==
    Called("touch_pubsub", <<"gmail">>, touch_pubsub(provider_push_state), "")

GetOutlookDeltaLink ==
    Called("get_outlook_delta_link", <<"outlook">>,
           ensure_row(provider_push_state, "outlook"), "")

SetOutlookDeltaLink ==
    \E link \in DeltaLinkArgs :
        Called("set_outlook_delta_link", <<"outlook", link>>,
               set_outlook_delta_link(provider_push_state, link), "")

TouchPoll ==
    \E provider \in PROVIDERS :
        Called("touch_poll", <<provider>>, touch_poll(provider_push_state, provider), "")

GetPushState ==
    \E provider \in PROVIDERS :
        Called("get_push_state", <<provider>>, ensure_row(provider_push_state, provider), "")

\* PushRepo.set_push_state: the ValueError comes before _ensure_row
SetPushState ==
    \E provider \in PROVIDERS, push_state \in PushStateArgs :
        IF valid_push_state(push_state)
        THEN Called("set_push_state", <<provider, push_state>>,
                    set_push_state(provider_push_state, provider, push_state), "")
        ELSE Called("set_push_state", <<provider, push_state>>,
                    provider_push_state, "ValueError")

NextRepo ==
    \/ GetGmailLastHistoryId
    \/ SetGmailLastHistoryId
    \/ UpdateGmailWatch
    \/ TouchPubsub
    \/ GetOutlookDeltaLink
    \/ SetOutlookDeltaLink
    \/ TouchPoll
    \/ GetPushState
    \/ SetPushState

SpecRepo == InitNotify /\ [][NextRepo]_vars

\* The methods of PushRepo
RepoMethods ==
    {"get_gmail_last_history_id", "set_gmail_last_history_id", "update_gmail_watch",
     "touch_pubsub", "get_outlook_delta_link", "set_outlook_delta_link", "touch_poll",
     "get_push_state", "set_push_state"}

\* The last step was a call of a repository method that did not raise
Accessed == applied.fn \in RepoMethods /\ applied.output = ""

(***************************************************************************)
(* C31.  Provider state rows: every access creates the provider's row if   *)
(* it is absent and no operation deletes a row; a row created by a read or *)
(* a touch has health 'down' and no cursor.  (The table is keyed by the    *)
(* provider, so a second row for one provider cannot be stored.)           *)
(***************************************************************************)
C31_RowsLazyAndKept ==
    Accessed =>
        LET before == applied.input[1]
            provider == applied.input[2][1]
        IN  /\ provider \in DOMAIN provider_push_state
            /\ DOMAIN before \subseteq DOMAIN provider_push_state
            /\ (/\ provider \notin DOMAIN before
                /\ applied.fn \in {"get_gmail_last_history_id", "get_outlook_delta_link",
                                   "touch_poll", "get_push_state"})
               => /\ provider_push_state[provider].push_state = "down"
                  /\ IsNull(provider_push_state[provider].gmail_last_history_id)
                  /\ IsNull(provider_push_state[provider].graph_delta_link)

\* set_push_state was called with an invalid state on a table that has rows
C32_Witness ==
    /\ applied.fn = "set_push_state"
    /\ applied.output = "ValueError"
    /\ applied.input[2][2] = "broken"
    /\ applied.input[1] /= <<>>

(***************************************************************************)
(* C32.  Health values are closed: set_push_state called with a state      *)
(* outside healthy, degraded, down raises ValueError and leaves the table  *)
(* as it was, rows included, so the stored health of every provider is one *)
(* of the three values in every reachable state.                           *)
(***************************************************************************)
C32_HealthClosed ==
    /\ \A provider \in DOMAIN provider_push_state :
           provider_push_state[provider].push_state \in {"healthy", "degraded", "down"}
    /\ (/\ applied.fn = "set_push_state"
        /\ applied.input[2][2] \notin {"healthy", "degraded", "down"})
       => /\ applied.output = "ValueError"
          /\ provider_push_state = applied.input[1]

\* The gmail row a successful renewal must leave, given the watch's answer
Renewed(state, result) ==
    /\ "gmail" \in DOMAIN state
    /\ state["gmail"].gmail_last_history_id = Some(result.historyId)
    /\ state["gmail"].gmail_watch_expires_at = Some(result.expiration)
    /\ state["gmail"].push_state = "healthy"

(***************************************************************************)
(* C33.  Watch renewal persists its result: after push_lifecycle.run       *)
(* returns True, the gmail state row holds the history id and the expiry   *)
(* returned by the watch call and health 'healthy', also on the first run  *)
(* when no gmail row exists before the call.                               *)
(***************************************************************************)
C33_RenewalPersisted ==
    [][WatchRenewRun("ok") =>
           Renewed(provider_push_state', gmail_watch_start(upstream.gmail, now))]_vars

\* The call carried a new message for a thread id that already has a
\* split-off thread, with a subject unrelated to the original row's
AfterSplitUnrelated(h) ==
    /\ h.split_before
    /\ h.stored = NoRow
    /\ h.original /= NoRow
    /\ ~Falsy(h.original_subject) /\ ~Falsy(h.args.subject)
    /\ ~subjects_are_related(h.original_subject, h.args.subject)

\* The message rows that reference thread row i
MessagesOf(i) == {j \in 1..Len(email_messages) : email_messages[j].thread_id = i}

(***************************************************************************)
(* C34.  After a split, the lookup by the original provider thread id      *)
(* finds only the original row: a later new message with that thread id    *)
(* whose subject is unrelated to the original row's stored subject starts  *)
(* yet another new thread, also when its subject is related to the         *)
(* split-off thread's subject, and a split-off thread never holds more     *)
(* than one message.                                                       *)
(***************************************************************************)
C34_SplitOffNeverGrows ==
    /\ \A k \in 1..Len(history) :
           AfterSplitUnrelated(history[k]) =>
               /\ ~history[k].raised
               /\ history[k].id /= NoRow
               /\ history[k].threads_after = history[k].threads_before + 1
               /\ email_messages[history[k].id].thread_id > history[k].threads_before
    /\ \A i \in 1..Len(email_threads) :
           (\E tid \in ThreadIds : StartsWith(email_threads[i].provider_thread_id, tid \o "_"))
               => Cardinality(MessagesOf(i)) <= 1

\* The same with the failed calls left out: what holds of the calls that returned
C34_SplitOffNeverGrowsReturned ==
    /\ \A k \in 1..Len(history) :
           (AfterSplitUnrelated(history[k]) /\ ~history[k].raised) =>
               /\ history[k].id /= NoRow
               /\ history[k].threads_after = history[k].threads_before + 1
               /\ email_messages[history[k].id].thread_id > history[k].threads_before
    /\ \A i \in 1..Len(email_threads) :
           (\E tid \in ThreadIds : StartsWith(email_threads[i].provider_thread_id, tid \o "_"))
               => Cardinality(MessagesOf(i)) <= 1

(***************************************************************************)
(* Ingestion of messages some of which carry no subject or an empty one.   *)
(***************************************************************************)
MissingSubjects == {None, "", "Hello", "Totally unrelated"}

IngestMissing == Ingest(ThreadIds, MissingSubjects)

NextMissing == IngestMissing \/ Tick

SpecMissing == Init /\ [][NextMissing]_vars

\* The call found a thread for its (provider, provider_thread_id), and its
\* subject or the stored one is null or empty
FoundMissing(h) ==
    /\ h.original /= NoRow
    /\ (Falsy(h.args.subject) \/ Falsy(h.original_subject))

\* A call without subject found a thread that has one; another found a
\* thread without subject and carried one
C35_Witness ==
    /\ \E k \in 1..Len(history) :
           /\ history[k].original /= NoRow
           /\ Falsy(history[k].args.subject)
           /\ ~Falsy(history[k].original_subject)
           /\ history[k].stored = NoRow
    /\ \E k \in 1..Len(history) :
           /\ history[k].original /= NoRow
           /\ ~Falsy(history[k].args.subject)
           /\ Falsy(history[k].original_subject)

(***************************************************************************)
(* C35.  A missing subject never splits and never erases: when             *)
(* upsert_thread finds an existing thread and the incoming subject is null *)
(* or empty, or the stored subject is null or empty, the call returns      *)
(* without inserting a thread row and a new message is filed under the     *)
(* thread found; a null or empty incoming subject leaves the thread table, *)
(* the stored subject included, unchanged.                                 *)
(***************************************************************************)
C35_MissingSubjectKeepsThread ==
    [][(Len(history') > Len(history) /\ FoundMissing(history'[Len(history')])) =>
           LET h == history'[Len(history')]
           IN  /\ ~h.raised
               /\ Len(email_threads') = Len(email_threads)
               /\ upsert_thread(email_threads, now, h.args.provider,
                                h.args.provider_thread_id, h.args.subject).id = h.original
               /\ h.stored = NoRow => email_messages'[h.id].thread_id = h.original
               /\ Falsy(h.args.subject) => email_threads' = email_threads]_vars

(***************************************************************************)
(* C36.  Full-refetch dedup uses one key: check_provider looks up each     *)
(* fetched email under the provider message id under which main stores it, *)
(* for every combination of present and absent id, message_id and          *)
(* internet_message_id, so an email stored by one poll cycle is not        *)
(* reported as new by the next.                                            *)
(***************************************************************************)
C36_OneDedupKey ==
    applied.fn = "check_provider" =>
        /\ ~applied.output.raised
        /\ applied.output.looked_up = applied.output.stored_as
        /\ ~applied.output.new_again

\* The same for the emails that carry an id
C36_OneDedupKeyWithId ==
    (applied.fn = "check_provider" /\ ~Falsy(applied.input.id)) =>
        /\ ~applied.output.raised
        /\ applied.output.looked_up = applied.output.stored_as
        /\ ~applied.output.new_again

(***************************************************************************)
(* notify_pending with a storage that may fail: the UPDATE of              *)
(* mark_notified raises for the messages in `failing`.  applied records    *)
(* the batch, the failing messages and the value main returns.             *)
(***************************************************************************)
\* A marking loop that ends at the first mark_notified that raises
RECURSIVE MarkEach_stop(_, _, _)
MarkEach_stop(messages, ids, failing) ==
    IF ids = <<>> THEN messages
    ELSE IF Head(ids) \in failing THEN messages
    ELSE MarkEach_stop(mark_notified(messages, Head(ids)), Tail(ids), failing)

\* notify_pending.main lines 81-85: mark_notified for every message of the
\* batch, each in its own try
RECURSIVE MarkEach(_, _, _)
MarkEach(messages, ids, failing) ==
    IF ids = <<>> THEN messages
    ELSE MarkEach(IF Head(ids) \in failing THEN messages
                  ELSE mark_notified(messages, Head(ids)),
                  Tail(ids), failing)

\* notify_pending.main with Telegram configured: nothing selected, the
\* send fails, or the send succeeds and the batch is marked
NotifyPendingRun(failing) ==
    LET unnotified == list_recent_unnotified(email_messages, now, SinceHours, PendingLimit)
        sent == IF unnotified /= <<>> /\ telegram_up THEN Len(unnotified) ELSE 0
    IN  /\ failing \subseteq Range(unnotified)
        /\ IF unnotified = <<>>
           THEN UNCHANGED <<email_messages, attempts, delivered>>
           ELSE IF telegram_up
           THEN /\ email_messages' = MarkEach(email_messages, unnotified, failing)
                /\ attempts' = Attempted(Range(unnotified) \ failing, "pending", "delivered", TRUE)
                                   \cup Attempted(failing, "pending", "delivered", FALSE)
                /\ delivered' = delivered \cup Range(unnotified)
           ELSE /\ email_messages' = email_messages
                /\ attempts' = Attempted(Range(unnotified), "pending", "failed", FALSE)
                /\ delivered' = delivered
        /\ applied' = [fn |-> "notify_pending",
                       input |-> <<Range(unnotified), failing, telegram_up>>,
                       output |-> sent]
        /\ UNCHANGED <<email_threads, now, history, proc, provider_push_state,
                       cycle, telegram_up, upstream, invocation>>

NotifyPendingFlaky == \E failing \in SUBSET (1..Len(email_messages)) : NotifyPendingRun(failing)

NextSweep ==
    \/ NewGmail
    \/ NewOutlook
    \/ Poll
    \/ GmailHook
    \/ TelegramFlip
    \/ TickDay
    \/ NotifyPendingFlaky

SpecSweep == InitNotify /\ [][NextSweep]_vars

\* notify_pending sent the digest of a batch of two and could mark only one
C37_Witness ==
    /\ applied.fn = "notify_pending"
    /\ Cardinality(applied.input[1]) = 2
    /\ Cardinality(applied.input[2]) = 1
    /\ applied.output = 2
    /\ \E i \in applied.input[1] \ applied.input[2] : Notified(i)

(***************************************************************************)
(* C37.  notify_pending is all-or-nothing on the send: when the digest     *)
(* send for the selected batch fails, it returns 0 and changes no message  *)
(* row; when the send succeeds, every message of the batch whose           *)
(* mark_notified does not fail carries 'notified' afterwards, also the     *)
(* ones selected after a message whose marking failed, and it returns the  *)
(* size of the batch.                                                      *)
(***************************************************************************)
C37_SendAllOrNothing ==
    [][NotifyPendingFlaky =>
           LET batch == applied'.input[1]
               failing == applied'.input[2]
           IN  IF ~telegram_up
               THEN /\ applied'.output = 0
                    /\ email_messages' = email_messages
               ELSE /\ applied'.output = Cardinality(batch)
                    /\ Len(email_messages') = Len(email_messages)
                    /\ \A i \in batch \ failing : HasTag(email_messages'[i], "notified")
                    /\ \A i \in 1..Len(email_messages) :
                           i \notin batch \ failing => email_messages'[i] = email_messages[i]]_vars

====
